---- MODULE Spec2Model ----
(***************************************************************************)
(* A model of the vim_engine editing-command interpreter: the keymap       *)
(* registry (keymaps/registry.py), the trie resolver (keymaps/resolver.py),*)
(* the per-mode state machines (modes/*.py) and the mode manager           *)
(* (modes/mode_manager.py).                                                *)
(***************************************************************************)
EXTENDS Integers, Sequences, FiniteSets, TLC

VARIABLES
    registry,   \* KeymapRegistry: [actions, bindings, mode_index, revision]
    cache,      \* KeymapResolver._cache: mode -> [revision, trie]
    last,       \* the last host call and what it returned or raised
    manager,    \* ModeManager: [active, pending_timeouts, timer_counter]
    modes,      \* ModeManager._modes: name -> the private state of the mode
    flags,      \* context.extras["keymap_flags"]: flag -> bool
    buffer,     \* ModeContext.buffer: [document, state, registers, undo]
    visual_state \* context.extras["visual_state"].get("anchor"): Optional cursor

\* The state of the mode layer.
modeVars == <<manager, modes, flags, buffer, visual_state>>

(***************************************************************************)
(* Python values                                                           *)
(***************************************************************************)

\* Optional[T]: None is the empty tuple, a present value x is <<x>>.
None == <<>>
Some(x) == <<x>>

\* An empty dict.
EmptyDict == [k \in {} |-> k]

\* d[k] = v on a dict.
DictPut(d, k, v) == [x \in (DOMAIN d) \cup {k} |-> IF x = k THEN v ELSE d[x]]

\* d.pop(k, None) on a dict.
DictPop(d, k) == [x \in (DOMAIN d) \ {k} |-> d[x]]

\* The strings of the model in Python's str order (code point order): the
\* order sorted() uses on tokens and on binding ids.
Collation ==
    << " ", "1", "2", ":", "<Esc>", "BACKSPACE", "Ctrl", "ENTER", "ESC", "a", "b1",
       "b2", "b3", "b4", "command.gg", "ctrl", "ctrl+ESC", "ctrl+shift+d", "d",
       "g", "g g", "h", "i", "insert.chord", "insert.j_panel", "insert.jk", "j", "k",
       "normal.enter_command", "normal.enter_insert",
       "normal.enter_visual", "normal.gg", "normal.gjk", "shift", "shift+ctrl+d",
       "v", "visual.gg", "w", "z" >>

StrRank(s) == CHOOSE i \in 1..Len(Collation) : Collation[i] = s

\* Python's str comparison a < b.
StrLess(a, b) == StrRank(a) < StrRank(b)

\* tuple(sorted(S)) for a set of strings.
RECURSIVE SortedTuple(_)
SortedTuple(S) ==
    IF S = {} THEN <<>>
    ELSE LET m == CHOOSE x \in S : \A y \in S : x = y \/ StrLess(x, y)
         IN  <<m>> \o SortedTuple(S \ {m})

\* sep.join(parts)
RECURSIVE StrJoin(_, _)
StrJoin(parts, sep) ==
    IF Len(parts) = 0 THEN ""
    ELSE IF Len(parts) = 1 THEN parts[1]
    ELSE parts[1] \o sep \o StrJoin(Tail(parts), sep)

(***************************************************************************)
(* keymaps/models.py                                                       *)
(***************************************************************************)

\* WhenClause.evaluate: a flag absent from the context counts as False.
ClauseEvaluate(clause, context) ==
    (IF clause.flag \in DOMAIN context THEN context[clause.flag] ELSE FALSE)
        = clause.expected

\* Binding.allows
Allows(binding, context) ==
    \A i \in DOMAIN binding.when : ClauseEvaluate(binding.when[i], context)

\* Binding.when_map: a dict built from the clauses in order, so the last
\* clause of a flag wins.
WhenMap(binding) ==
    LET w == binding.when
    IN  [f \in {w[i].flag : i \in DOMAIN w} |->
            w[CHOOSE i \in DOMAIN w :
                 /\ w[i].flag = f
                 /\ \A j \in DOMAIN w : w[j].flag = f => j <= i].expected]

\* Binding.key_signature
KeySignature(binding) == StrJoin(binding.sequence.tokens, " ")

(***************************************************************************)
(* keymaps/registry.py                                                     *)
(***************************************************************************)

EmptyRegistry ==
    [actions |-> EmptyDict, bindings |-> EmptyDict,
     mode_index |-> EmptyDict, revision |-> 0]

\* What a registry call gives back: the registry afterwards and the
\* exception it raised ("none" when it returned).
Returned(reg) == [registry |-> reg, raised |-> "none"]
Raised(reg, exc) == [registry |-> reg, raised |-> exc]

ContextsOverlapUnlessOpposed(left, right) ==
    LET left_map == WhenMap(left)
        right_map == WhenMap(right)
    IN  IF left.when = <<>> /\ right.when = <<>> THEN TRUE
        ELSE IF \E f \in DOMAIN left_map :
                    f \in DOMAIN right_map /\ right_map[f] # left_map[f]
             THEN FALSE
        ELSE IF left.when = <<>> \/ right.when = <<>> THEN FALSE
        ELSE TRUE

ContextsOverlap(left, right) ==
    LET left_map == WhenMap(left)
        right_map == WhenMap(right)
    IN  IF left.when = <<>> /\ right.when = <<>> THEN TRUE
        ELSE IF \E f \in DOMAIN left_map :
                    f \in DOMAIN right_map /\ right_map[f] # left_map[f]
             THEN FALSE
        ELSE IF left.when = <<>> \/ right.when = <<>> THEN FALSE
        ELSE left_map = right_map

\* self._mode_index.get(mode, {}).get(signature, set())
Bucket(mode_index, mode, signature) ==
    IF mode \in DOMAIN mode_index /\ signature \in DOMAIN mode_index[mode]
    THEN mode_index[mode][signature]
    ELSE {}

\* detect_conflicts looks every id of the bucket up in the table
\* (self._bindings[match_id]): an id the table does not hold raises KeyError.
DetectConflictsRaises(reg, binding) ==
    \E m \in Bucket(reg.mode_index, binding.mode, KeySignature(binding)) :
        m \notin DOMAIN reg.bindings

DetectConflicts(reg, binding) ==
    {reg.bindings[id] :
        id \in {m \in Bucket(reg.mode_index, binding.mode, KeySignature(binding)) :
                   ContextsOverlap(binding, reg.bindings[m])}}

IndexBinding(mode_index, binding) ==
    LET by_signature == IF binding.mode \in DOMAIN mode_index
                        THEN mode_index[binding.mode] ELSE EmptyDict
        sig == KeySignature(binding)
        bucket == IF sig \in DOMAIN by_signature THEN by_signature[sig] ELSE {}
    IN  DictPut(mode_index, binding.mode,
                DictPut(by_signature, sig, bucket \cup {binding.id}))

RemoveBinding(mode_index, binding) ==
    LET sig == KeySignature(binding)
    IN  IF binding.mode \notin DOMAIN mode_index THEN mode_index
        ELSE LET mode_bucket == mode_index[binding.mode]
             IN  IF sig \notin DOMAIN mode_bucket \/ mode_bucket[sig] = {}
                 THEN mode_index
                 ELSE LET signatures == mode_bucket[sig] \ {binding.id}
                          bucket2 == IF signatures = {}
                                     THEN DictPop(mode_bucket, sig)
                                     ELSE DictPut(mode_bucket, sig, signatures)
                      IN  IF DOMAIN bucket2 = {}
                          THEN DictPop(mode_index, binding.mode)
                          ELSE DictPut(mode_index, binding.mode, bucket2)

TouchBindingsFrozen(reg) == reg

TouchBindings(reg) == [reg EXCEPT !.revision = @ + 1]

\* self._remove_binding(b); self._bindings.pop(b.id, None)
DropBinding(reg, b) ==
    [reg EXCEPT !.mode_index = RemoveBinding(@, b),
                !.bindings = DictPop(@, b.id)]

RECURSIVE DropAll(_, _)
DropAll(reg, bs) ==
    IF bs = {} THEN reg
    ELSE LET b == CHOOSE x \in bs : TRUE
         IN  DropAll(DropBinding(reg, b), bs \ {b})

RegisterActionOp(reg, action, replace) ==
    IF ~replace /\ action.id \in DOMAIN reg.actions
    THEN Raised(reg, "ValueError")
    ELSE Returned([reg EXCEPT !.actions = DictPut(@, action.id, action.handler)])

RegisterBindingOp(reg, binding, replace) ==
    IF binding.action_id \notin DOMAIN reg.actions
    THEN Raised(reg, "KeyError")
    ELSE IF DetectConflictsRaises(reg, binding)
    THEN Raised(reg, "KeyError")
    ELSE LET conflicts == DetectConflicts(reg, binding)
         IN  IF conflicts # {} /\ ~replace
             THEN Raised(reg, "KeymapConflictError")
             ELSE IF ~replace /\ binding.id \in DOMAIN reg.bindings
             THEN Raised(reg, "ValueError")
             ELSE LET r1 == IF replace THEN DropAll(reg, conflicts) ELSE reg
                      r2 == IF replace /\ binding.id \in DOMAIN r1.bindings
                            THEN DropBinding(r1, r1.bindings[binding.id])
                            ELSE r1
                      r3 == [r2 EXCEPT
                                !.bindings = DictPut(@, binding.id, binding),
                                !.mode_index = IndexBinding(@, binding)]
                  IN  Returned(TouchBindings(r3))

UnregisterBindingOp(reg, binding_id) ==
    IF binding_id \notin DOMAIN reg.bindings
    THEN Returned(reg)
    ELSE Returned(TouchBindings(
             [reg EXCEPT !.bindings = DictPop(@, binding_id),
                         !.mode_index = RemoveBinding(@, reg.bindings[binding_id])]))

\* dataclasses.replace(current, **changes): changes is a dict field -> value.
ReplaceFields(current, changes) ==
    [f \in DOMAIN current |-> IF f \in DOMAIN changes THEN changes[f] ELSE current[f]]

UpdateBindingOp(reg, binding_id, changes) ==
    IF binding_id \notin DOMAIN reg.bindings
    THEN Raised(reg, "KeyError")
    ELSE LET current == reg.bindings[binding_id]
             updated == ReplaceFields(current, changes)
         IN  IF updated.action_id \notin DOMAIN reg.actions
             THEN Raised(reg, "KeyError")
             ELSE LET r1 == [reg EXCEPT !.mode_index = RemoveBinding(@, current)]
                      conflicts == DetectConflicts(r1, updated)
                  IN  IF DetectConflictsRaises(r1, updated)
                      THEN Raised(r1, "KeyError")
                      ELSE IF conflicts # {}
                      THEN Raised([r1 EXCEPT !.mode_index = IndexBinding(@, current)],
                                  "KeymapConflictError")
                      ELSE Returned(TouchBindings(
                               [r1 EXCEPT
                                   !.bindings = DictPut(@, binding_id, updated),
                                   !.mode_index = IndexBinding(@, updated)]))

\* iter_bindings(mode) of a mode looks every indexed id up in the table: an id
\* the table does not hold raises KeyError.
IterBindingsRaises(reg, mode) ==
    /\ mode # None
    /\ mode[1] \in DOMAIN reg.mode_index
    /\ \E s \in DOMAIN reg.mode_index[mode[1]] :
          \E id \in reg.mode_index[mode[1]][s] : id \notin DOMAIN reg.bindings

\* iter_bindings(mode) with mode: Optional[str]: every binding of the table
\* for None, else the bindings indexed under the mode.
IterBindings(reg, mode) ==
    IF mode = None THEN {reg.bindings[k] : k \in DOMAIN reg.bindings}
    ELSE IF mode[1] \notin DOMAIN reg.mode_index THEN {}
    ELSE LET by_signature == reg.mode_index[mode[1]]
         IN  {reg.bindings[id] :
                id \in UNION {by_signature[s] : s \in DOMAIN by_signature}}

UpdateBindingInPlace(reg, current, updated) ==
    [reg EXCEPT
        !.mode_index = IndexBinding(RemoveBinding(@, current), updated),
        !.bindings = DictPut(@, current.id, updated)]

RECURSIVE OverrideAll(_, _, _)
OverrideAll(reg, targets, timeout_ms) ==
    IF targets = {} THEN reg
    ELSE LET b == CHOOSE x \in targets : TRUE
             updated == [b EXCEPT !.sequence.timeout_ms = timeout_ms]
         IN  OverrideAll(UpdateBindingInPlace(reg, b, updated), targets \ {b}, timeout_ms)

\* override_sequence_timeouts(timeout_ms, mode, binding_ids), mode and
\* binding_ids being Optional.
OverrideSequenceTimeoutsOp(reg, timeout_ms, mode, binding_ids) ==
    IF timeout_ms <= 0 THEN Raised(reg, "ValueError")
    ELSE IF binding_ids # None /\ \E id \in binding_ids[1] : id \notin DOMAIN reg.bindings
    THEN Raised(reg, "KeyError")
    ELSE IF binding_ids = None /\ IterBindingsRaises(reg, mode)
    THEN Raised(reg, "KeyError")
    ELSE LET targets == IF binding_ids # None
                        THEN {reg.bindings[id] : id \in binding_ids[1]}
                        ELSE IterBindings(reg, mode)
         IN  IF targets = {} THEN Returned(reg)
             ELSE Returned(TouchBindings(OverrideAll(reg, targets, timeout_ms)))

(***************************************************************************)
(* keymaps/resolver.py                                                     *)
(***************************************************************************)

\* The prefixes of a token tuple, the empty one and the tuple itself included:
\* the trie nodes KeymapTrie.add_binding walks through.
Prefixes(tokens) == {SubSeq(tokens, 1, n) : n \in 0..Len(tokens)}

\* A KeymapTrie as a map from the path of each node (root: the empty path) to
\* TrieNode.bindings; TrieNode.children are the paths one token longer.
BuildTrie(reg, mode) ==
    LET bs == IterBindings(reg, Some(mode))
    IN  [p \in {<<>>} \cup UNION {Prefixes(b.sequence.tokens) : b \in bs} |->
            {b.id : b \in {x \in bs : x.sequence.tokens = p}}]

\* node.children.keys()
Children(trie, node) ==
    {p[Len(p)] : p \in {q \in DOMAIN trie : Len(q) = Len(node) + 1
                                            /\ SubSeq(q, 1, Len(node)) = node}}

\* TrieNode.next_tokens
NextTokens(trie, node) == SortedTuple(Children(trie, node))

EnsureTrieAlwaysCached(rcache, reg, mode) ==
    IF mode \in DOMAIN rcache
    THEN [trie |-> rcache[mode].trie, cache |-> rcache]
    ELSE LET trie == BuildTrie(reg, mode)
         IN  [trie |-> trie,
              cache |-> DictPut(rcache, mode, [revision |-> reg.revision, trie |-> trie])]

\* KeymapResolver._ensure_trie: the trie to use and the cache afterwards.
EnsureTrie(rcache, reg, mode) ==
    IF mode \in DOMAIN rcache /\ rcache[mode].revision = reg.revision
    THEN [trie |-> rcache[mode].trie, cache |-> rcache]
    ELSE LET trie == BuildTrie(reg, mode)
         IN  [trie |-> trie,
              cache |-> DictPut(rcache, mode, [revision |-> reg.revision, trie |-> trie])]

RECURSIVE WalkTrieCountsFailing(_, _, _)
WalkTrieCountsFailing(trie, tokens, consumed) ==
    IF consumed = Len(tokens)
    THEN [node |-> tokens, consumed |-> consumed, missed |-> FALSE]
    ELSE IF SubSeq(tokens, 1, consumed + 1) \notin DOMAIN trie
    THEN [node |-> SubSeq(tokens, 1, consumed), consumed |-> consumed + 1, missed |-> TRUE]
    ELSE WalkTrieCountsFailing(trie, tokens, consumed + 1)

\* The loop of resolve over the tokens: the node reached, the tokens consumed
\* and whether a token had no child.
RECURSIVE WalkTrie(_, _, _)
WalkTrie(trie, tokens, consumed) ==
    IF consumed = Len(tokens)
    THEN [node |-> tokens, consumed |-> consumed, missed |-> FALSE]
    ELSE IF SubSeq(tokens, 1, consumed + 1) \notin DOMAIN trie
    THEN [node |-> SubSeq(tokens, 1, consumed), consumed |-> consumed, missed |-> TRUE]
    ELSE WalkTrie(trie, tokens, consumed + 1)

SortsBeforeLowestPriority(m, o) ==
    \/ m.priority < o.priority
    \/ m.priority = o.priority /\ StrLess(m.id, o.id)

\* sort key (-priority, id) of _select_match: m sorts before o.
SortsBefore(m, o) ==
    \/ m.priority > o.priority
    \/ m.priority = o.priority /\ StrLess(m.id, o.id)

\* A ResolutionResult; resolve raising KeyError (get_binding or get_action on
\* an id the registry does not hold) is the result of status "KeyError".
Result(status, match, consumed, next_expected, timeout_ms) ==
    [status |-> status, match |-> match, consumed |-> consumed,
     next_expected |-> next_expected, timeout_ms |-> timeout_ms]

\* KeymapResolver._select_match: raises, or returns an Optional match.
SelectMatch(trie, node, reg, context) ==
    IF \E id \in trie[node] : id \notin DOMAIN reg.bindings
    THEN [raised |-> TRUE, match |-> None]
    ELSE LET matches == {b \in {reg.bindings[id] : id \in trie[node]} : Allows(b, context)}
         IN  IF \E b \in matches : b.action_id \notin DOMAIN reg.actions
             THEN [raised |-> TRUE, match |-> None]
             ELSE IF matches = {} THEN [raised |-> FALSE, match |-> None]
             ELSE LET best == CHOOSE m \in matches :
                                 \A o \in matches : o = m \/ SortsBefore(m, o)
                  IN  [raised |-> FALSE,
                       match |-> Some([binding |-> best,
                                       action |-> [id |-> best.action_id,
                                                   handler |-> reg.actions[best.action_id]]])]

IdsBelowChildrenOnly(trie, node) ==
    UNION {trie[p] : p \in {q \in DOMAIN trie : Len(q) = Len(node) + 1
                                               /\ SubSeq(q, 1, Len(node)) = node}}

\* The binding ids stored strictly below a node.
IdsBelow(trie, node) ==
    UNION {trie[p] : p \in {q \in DOMAIN trie : Len(q) > Len(node)
                                               /\ SubSeq(q, 1, Len(node)) = node}}

\* min() of a non-empty set of integers.
Minimum(S) == CHOOSE x \in S : \A y \in S : x <= y

\* KeymapResolver._pending_timeout: raises, or returns Optional[int].
PendingTimeout(trie, node, reg) ==
    LET ids == IdsBelow(trie, node)
    IN  IF \E id \in ids : id \notin DOMAIN reg.bindings
        THEN [raised |-> TRUE, timeout_ms |-> None]
        ELSE IF ids = {} THEN [raised |-> FALSE, timeout_ms |-> None]
        ELSE [raised |-> FALSE,
              timeout_ms |-> Some(Minimum({reg.bindings[id].sequence.timeout_ms : id \in ids}))]

\* A resolve that waits for a longer sequence before it looks for a match.
ResolveOnTrieLongestFirst(trie, reg, tokens, context) ==
    LET walk == WalkTrie(trie, tokens, 0)
    IN  IF walk.missed THEN Result("miss", None, walk.consumed, <<>>, None)
        ELSE IF NextTokens(trie, walk.node) # <<>>
        THEN Result("pending", None, walk.consumed, NextTokens(trie, walk.node),
                    PendingTimeout(trie, walk.node, reg).timeout_ms)
        ELSE IF SelectMatch(trie, walk.node, reg, context).match # None
        THEN Result("match", SelectMatch(trie, walk.node, reg, context).match,
                    walk.consumed, <<>>, None)
        ELSE Result("miss", None, walk.consumed, <<>>, None)

\* KeymapResolver.resolve on the trie _ensure_trie gave.
ResolveOnTrie(trie, reg, tokens, context) ==
    LET walk == WalkTrie(trie, tokens, 0)
    IN  IF walk.missed THEN Result("miss", None, walk.consumed, <<>>, None)
        ELSE LET sel == SelectMatch(trie, walk.node, reg, context)
                 next_expected == NextTokens(trie, walk.node)
             IN  IF sel.raised THEN Result("KeyError", None, 0, <<>>, None)
                 ELSE IF sel.match # None
                 THEN Result("match", sel.match, walk.consumed, <<>>, None)
                 ELSE IF next_expected # <<>>
                 THEN LET pt == PendingTimeout(trie, walk.node, reg)
                      IN  IF pt.raised THEN Result("KeyError", None, 0, <<>>, None)
                          ELSE Result("pending", None, walk.consumed,
                                      next_expected, pt.timeout_ms)
                 ELSE Result("miss", None, walk.consumed, <<>>, None)

\* KeymapResolver.resolve: the result and the cache afterwards.
Resolve(rcache, reg, mode, tokens, context) ==
    LET e == EnsureTrie(rcache, reg, mode)
    IN  [result |-> ResolveOnTrie(e.trie, reg, tokens, context), cache |-> e.cache]

(***************************************************************************)
(* Host calls on the registry and the resolver                             *)
(***************************************************************************)

\* Cap on KeymapRegistry._revision, which the code never bounds.
MaxRevision == 3

\* The record of a host call: the operation, the exception it raised ("none"
\* when it returned) and, for resolve, its arguments and the ResolutionResult.
Call(op, args, raised, result) ==
    [op |-> op, args |-> args, raised |-> raised, result |-> result]

NoArgs == [k \in {} |-> k]

RegisterAction(action, replace) ==
    LET out == RegisterActionOp(registry, action, replace)
    IN  /\ registry' = out.registry
        /\ last' = Call("register_action", NoArgs, out.raised, None)
        /\ UNCHANGED <<cache, modeVars>>

RegisterBinding(binding, replace) ==
    LET out == RegisterBindingOp(registry, binding, replace)
    IN  /\ registry.revision < MaxRevision
        /\ registry' = out.registry
        /\ last' = Call("register_binding", NoArgs, out.raised, None)
        /\ UNCHANGED <<cache, modeVars>>

UnregisterBinding(binding_id) ==
    LET out == UnregisterBindingOp(registry, binding_id)
    IN  /\ registry.revision < MaxRevision
        /\ registry' = out.registry
        /\ last' = Call("unregister_binding", NoArgs, out.raised, None)
        /\ UNCHANGED <<cache, modeVars>>

UpdateBinding(binding_id, changes) ==
    LET out == UpdateBindingOp(registry, binding_id, changes)
    IN  /\ registry.revision < MaxRevision
        /\ registry' = out.registry
        /\ last' = Call("update_binding", NoArgs, out.raised, None)
        /\ UNCHANGED <<cache, modeVars>>

OverrideSequenceTimeouts(timeout_ms, mode, binding_ids) ==
    LET out == OverrideSequenceTimeoutsOp(registry, timeout_ms, mode, binding_ids)
    IN  /\ registry.revision < MaxRevision
        /\ registry' = out.registry
        /\ last' = Call("override_sequence_timeouts", NoArgs, out.raised, None)
        /\ UNCHANGED <<cache, modeVars>>

ResolveCall(mode, tokens, context) ==
    LET out == Resolve(cache, registry, mode, tokens, context)
    IN  /\ cache' = out.cache
        /\ last' = Call("resolve",
                        [mode |-> mode, tokens |-> tokens, context |-> context],
                        IF out.result.status = "KeyError" THEN "KeyError" ELSE "none",
                        Some(out.result))
        /\ UNCHANGED <<registry, modeVars>>

(***************************************************************************)
(* The inputs of the keymap specifications                                 *)
(***************************************************************************)

When(flag, expected) == [flag |-> flag, expected |-> expected]

MakeBinding(id, mode, tokens, timeout_ms, action_id, when, priority) ==
    [id |-> id, mode |-> mode,
     sequence |-> [tokens |-> tokens, timeout_ms |-> timeout_ms],
     action_id |-> action_id, when |-> when, priority |-> priority]

\* tests/test_keymaps_resolver.py make_action: a handler returning None.
TestAction == [id |-> "core.test", handler |-> "returns_none"]

\* The bindings a host registers in SpecResolve: b1 on the shorter sequences,
\* b2 on the longer ones; a guarded binding may carry a raised priority.
ResolveBindings ==
    {MakeBinding(x.id, "normal", x.tokens, timeout_ms, "core.test", g.when, g.priority) :
        x \in {[id |-> "b1", tokens |-> <<"g">>],
               [id |-> "b1", tokens |-> <<"g", "g">>],
               [id |-> "b2", tokens |-> <<"g", "g">>],
               [id |-> "b2", tokens |-> <<"g", "h">>],
               [id |-> "b2", tokens |-> <<"g", "g", "h">>]},
        timeout_ms \in {250, 1000},
        g \in {[when |-> <<>>, priority |-> 0],
               [when |-> <<When("a", TRUE)>>, priority |-> 0],
               [when |-> <<When("a", TRUE)>>, priority |-> 1]}}

ResolveTokens ==
    {<<>>, <<"g">>, <<"h">>, <<"g", "g">>, <<"g", "g", "h">>, <<"g", "g", "g">>}

\* Flag contexts: no flag at all, a set, a cleared.
ResolveContexts == {EmptyDict, [f \in {"a"} |-> TRUE], [f \in {"a"} |-> FALSE]}

vars == <<registry, cache, last, manager, modes, flags, buffer, visual_state>>

\* The unnamed register.
Unnamed == "\""

\* Buffer(): one empty line at version 0, the cursor at the origin, no
\* selection, an empty unnamed register and an empty undo timeline.
DefaultBuffer ==
    [document |-> [lines |-> << <<>> >>, version |-> 0, dirty |-> FALSE],
     state |-> [cursor |-> <<0, 0>>, selection |-> None,
                active_register |-> Unnamed, last_change_tick |-> 0],
     registers |-> [n \in {Unnamed} |-> [text |-> <<>>, type |-> "character"]],
     undo |-> [entries |-> <<>>, index |-> -1]]

\* ModeManager.__init__: no mode registered, no timer, counter 0.
ManagerConstructed ==
    /\ manager = [active |-> None, pending_timeouts |-> <<>>, timer_counter |-> 0]
    /\ modes = EmptyDict
    /\ flags = EmptyDict

InitResolve ==
    /\ registry = RegisterActionOp(EmptyRegistry, TestAction, FALSE).registry
    /\ cache = EmptyDict
    /\ last = Call("init", NoArgs, "none", None)
    /\ ManagerConstructed
    /\ buffer = DefaultBuffer
    /\ visual_state = None

NextResolve ==
    \/ \E b \in ResolveBindings : RegisterBinding(b, FALSE)
    \/ \E t \in ResolveTokens, c \in ResolveContexts : ResolveCall("normal", t, c)

SpecResolve == InitResolve /\ [][NextResolve]_vars

(***************************************************************************)
(* SpecRegistry: every registry mutation                                   *)
(***************************************************************************)

\* (mode, tokens, when) of the bindings a host registers in SpecRegistry; the
\* key "g g" has the key signature of the two strokes "g", "g".
RegistryShapes ==
    {[mode |-> "normal", tokens |-> <<"g", "g">>, when |-> w] :
        w \in {<<>>, <<When("a", TRUE)>>, <<When("a", FALSE)>>, <<When("b", TRUE)>>,
               <<When("a", TRUE), When("b", TRUE)>>}}
    \cup {[mode |-> "normal", tokens |-> <<"g g">>, when |-> w] :
        w \in {<<>>, <<When("a", TRUE)>>}}
    \cup {[mode |-> "normal", tokens |-> <<"g">>, when |-> <<>>]}
    \cup {[mode |-> "insert", tokens |-> <<"g", "g">>, when |-> w] :
        w \in {<<>>, <<When("a", TRUE)>>}}

RegistryBindings ==
    {MakeBinding(id, x.mode, x.tokens, 1000, "core.test", x.when, 0) :
        id \in {"b1", "b2"}, x \in RegistryShapes}

\* The changes a host passes to update_binding.
RegistryChanges ==
    {[f \in {"priority"} |-> 1],
     [f \in {"when"} |-> <<>>],
     [f \in {"when"} |-> <<When("a", TRUE)>>],
     [f \in {"sequence"} |-> [tokens |-> <<"g">>, timeout_ms |-> 1000]],
     [f \in {"mode"} |-> "insert"],
     [f \in {"action_id"} |-> "core.missing"]}

\* (timeout_ms, mode, binding_ids) of override_sequence_timeouts calls.
RegistryOverrides ==
    {[timeout_ms |-> 250, mode |-> Some("normal"), binding_ids |-> None],
     [timeout_ms |-> 250, mode |-> None, binding_ids |-> None],
     [timeout_ms |-> 250, mode |-> None, binding_ids |-> Some({"b1"})],
     [timeout_ms |-> 250, mode |-> None, binding_ids |-> Some({"b3"})],
     [timeout_ms |-> 0, mode |-> None, binding_ids |-> None]}

InitRegistry ==
    /\ registry = EmptyRegistry
    /\ cache = EmptyDict
    /\ last = Call("init", NoArgs, "none", None)
    /\ ManagerConstructed
    /\ buffer = DefaultBuffer
    /\ visual_state = None

NextRegistry ==
    \/ \E r \in BOOLEAN : RegisterAction(TestAction, r)
    \/ \E b \in RegistryBindings, r \in BOOLEAN : RegisterBinding(b, r)
    \/ \E id \in {"b1", "b2", "b3"} : UnregisterBinding(id)
    \/ \E id \in {"b1", "b2", "b3"}, ch \in RegistryChanges : UpdateBinding(id, ch)
    \/ \E o \in RegistryOverrides :
          OverrideSequenceTimeouts(o.timeout_ms, o.mode, o.binding_ids)

SpecRegistry == InitRegistry /\ [][NextRegistry]_vars

(***************************************************************************)
(* SpecRegistryIds: registry mutations of a host that also changes the id  *)
(* of a binding through update_binding (dataclasses.replace accepts every  *)
(* field of Binding, id included)                                          *)
(***************************************************************************)

\* Cap on KeymapRegistry._revision in SpecRegistryIds.
MaxIdsRevision == 5

IdsBindings ==
    {MakeBinding(id, "normal", x.tokens, 1000, x.action_id, x.when, 0) :
        id \in {"b1", "b2"},
        x \in {[tokens |-> <<"g", "g">>, when |-> <<>>, action_id |-> "core.test"],
               [tokens |-> <<"g", "g">>, when |-> <<When("a", TRUE)>>, action_id |-> "core.test"],
               [tokens |-> <<"g">>, when |-> <<>>, action_id |-> "core.test"],
               [tokens |-> <<"g">>, when |-> <<>>, action_id |-> "core.missing"]}}

\* The changes a host passes to update_binding.
IdsChanges ==
    {[f \in {"id"} |-> "b2"],
     [f \in {"sequence"} |-> [tokens |-> <<"g">>, timeout_ms |-> 1000]],
     [f \in {"sequence"} |-> [tokens |-> <<"g", "g">>, timeout_ms |-> 1000]],
     [f \in {"action_id"} |-> "core.missing"]}

\* A registry call of SpecRegistryIds, recorded with its arguments.
IdsCall(op, args, out) ==
    /\ registry.revision < MaxIdsRevision
    /\ registry' = out.registry
    /\ last' = Call(op, args, out.raised, None)
    /\ UNCHANGED <<cache, modeVars>>

IdsRegisterBinding(binding, replace) ==
    /\ IdsCall("register_binding", [binding |-> binding, replace |-> replace],
               RegisterBindingOp(registry, binding, replace))

IdsUnregisterBinding(binding_id) ==
    /\ IdsCall("unregister_binding", [binding_id |-> binding_id],
               UnregisterBindingOp(registry, binding_id))

IdsUpdateBinding(binding_id, changes) ==
    /\ IdsCall("update_binding", [binding_id |-> binding_id, changes |-> changes],
               UpdateBindingOp(registry, binding_id, changes))

NextRegistryIds ==
    \/ \E b \in IdsBindings, r \in BOOLEAN : IdsRegisterBinding(b, r)
    \/ \E id \in {"b1", "b2"} : IdsUnregisterBinding(id)
    \/ \E id \in {"b1", "b2"}, ch \in IdsChanges : IdsUpdateBinding(id, ch)

SpecRegistryIds == InitResolve /\ [][NextRegistryIds]_vars

(***************************************************************************)
(* SpecCache: registry mutations interleaved with resolve calls on one     *)
(* long-lived KeymapResolver                                               *)
(***************************************************************************)

CacheBindings ==
    {MakeBinding(id, x.mode, x.tokens, 1000, "core.test", <<>>, 0) :
        id \in {"b1", "b2"},
        x \in {[mode |-> "normal", tokens |-> <<"g">>],
               [mode |-> "normal", tokens |-> <<"g", "g">>],
               [mode |-> "insert", tokens |-> <<"g">>]}}

CacheChanges ==
    {[f \in {"sequence"} |-> [tokens |-> <<"g", "g">>, timeout_ms |-> 500]],
     [f \in {"mode"} |-> "insert"],
     [f \in {"when"} |-> <<When("a", TRUE)>>]}

\* A second handler for the action id of the bindings.
OtherAction == [id |-> "core.test", handler |-> "returns_result"]

CacheModes == {"normal", "insert"}

CacheTokens == {<<>>, <<"g">>, <<"g", "g">>, <<"h">>}

CacheContexts == {EmptyDict, [f \in {"a"} |-> TRUE]}

NextCache ==
    \/ \E a \in {TestAction, OtherAction} : RegisterAction(a, TRUE)
    \/ \E b \in CacheBindings, r \in BOOLEAN : RegisterBinding(b, r)
    \/ \E id \in {"b1", "b2"} : UnregisterBinding(id)
    \/ \E id \in {"b1", "b2"}, ch \in CacheChanges : UpdateBinding(id, ch)
    \/ \E m \in CacheModes : OverrideSequenceTimeouts(250, Some(m), None)
    \/ \E m \in CacheModes, c \in CacheContexts : ResolveCall(m, <<"g">>, c)

SpecCache == InitRegistry /\ [][NextCache]_vars

(***************************************************************************)
(* Properties of the resolver (SpecResolve, SpecCache)                     *)
(***************************************************************************)

\* The bindings the registry holds.
Registered == {registry.bindings[k] : k \in DOMAIN registry.bindings}

\* The registered bindings of a mode bound to exactly these tokens.
BoundAt(mode, tokens) ==
    {b \in Registered : b.mode = mode /\ b.sequence.tokens = tokens}

\* The registered bindings of a mode bound to a strictly longer sequence that
\* starts with these tokens.
BoundBelow(mode, tokens) ==
    {b \in Registered :
        /\ b.mode = mode
        /\ Len(b.sequence.tokens) > Len(tokens)
        /\ SubSeq(b.sequence.tokens, 1, Len(tokens)) = tokens}

\* Every when-clause of b is satisfied, a flag absent from the context being false.
GuardsPass(b, context) ==
    \A i \in DOMAIN b.when :
        (b.when[i].flag \in DOMAIN context /\ context[b.when[i].flag])
            <=> b.when[i].expected

\* seq lists exactly the strings of S, in strictly increasing order.
IsSortedTupleOf(seq, S) ==
    /\ {seq[i] : i \in DOMAIN seq} = S
    /\ \A i \in DOMAIN seq : i < Len(seq) => StrLess(seq[i], seq[i + 1])

\* C6: when every token was consumed and bindings are bound to exactly these
\* tokens, resolve returns match iff one of them passes its guards, the match
\* is the passing binding of highest priority (smallest id on a tie), and with
\* none passing the result is pending if longer sequences exist, else miss.
C6_MatchSelection ==
    last.op = "resolve" =>
        LET a == last.args
            r == last.result[1]
            at == BoundAt(a.mode, a.tokens)
            pass == {b \in at : GuardsPass(b, a.context)}
        IN  at # {} =>
              /\ (r.status = "match") <=> (pass # {})
              /\ pass # {} =>
                    /\ r.match # None
                    /\ r.match[1].binding \in pass
                    /\ r.match[1].action.id = r.match[1].binding.action_id
                    /\ \A o \in pass :
                          /\ o.priority <= r.match[1].binding.priority
                          /\ o.priority = r.match[1].binding.priority
                                => (o.id = r.match[1].binding.id
                                    \/ StrLess(r.match[1].binding.id, o.id))
              /\ pass = {} =>
                    r.status = (IF BoundBelow(a.mode, a.tokens) # {}
                                THEN "pending" ELSE "miss")

\* Two bindings on the resolved tokens pass with the same priority and one is matched.
C6_Witness ==
    /\ last.op = "resolve"
    /\ last.result[1].status = "match"
    /\ \E x, y \in BoundAt(last.args.mode, last.args.tokens) :
          /\ x.id # y.id
          /\ x.priority = y.priority
          /\ GuardsPass(x, last.args.context)
          /\ GuardsPass(y, last.args.context)

\* C7: resolving a strict prefix of a bound sequence at whose node no binding
\* passes yields pending, consumed = number of tokens, next_expected = the
\* sorted one-token continuations, timeout_ms = the least timeout_ms of the
\* bindings strictly below.
C7_PendingPrefix ==
    last.op = "resolve" =>
        LET a == last.args
            r == last.result[1]
            below == BoundBelow(a.mode, a.tokens)
            pass == {b \in BoundAt(a.mode, a.tokens) : GuardsPass(b, a.context)}
        IN  (below # {} /\ pass = {}) =>
              /\ r.status = "pending"
              /\ r.consumed = Len(a.tokens)
              /\ IsSortedTupleOf(r.next_expected,
                                 {b.sequence.tokens[Len(a.tokens) + 1] : b \in below})
              /\ r.timeout_ms # None
              /\ \E b \in below : b.sequence.timeout_ms = r.timeout_ms[1]
              /\ \A b \in below : r.timeout_ms[1] <= b.sequence.timeout_ms

\* A pending result whose least timeout belongs to a binding two tokens below.
C7_Witness ==
    /\ last.op = "resolve"
    /\ last.result[1].status = "pending"
    /\ \E x, y \in BoundBelow(last.args.mode, last.args.tokens) :
          /\ Len(x.sequence.tokens) = Len(last.args.tokens) + 1
          /\ Len(y.sequence.tokens) = Len(last.args.tokens) + 2
          /\ y.sequence.timeout_ms < x.sequence.timeout_ms

\* C8: when the tokens are no prefix of any bound sequence of the mode, resolve
\* returns miss with consumed = the length of the longest prefix of the tokens
\* that is a prefix of a bound sequence; nothing else of the registry or of
\* the context enters the result.
C8_MissOnUnknownToken ==
    last.op = "resolve" =>
        LET a == last.args
            bound == {b.sequence.tokens : b \in {x \in Registered : x.mode = a.mode}}
            OnPath(n) == \E t \in bound :
                            Len(t) >= n /\ SubSeq(t, 1, n) = SubSeq(a.tokens, 1, n)
            matched == CHOOSE n \in 0..Len(a.tokens) :
                          (n = 0 \/ OnPath(n))
                          /\ \A k \in (n + 1)..Len(a.tokens) : ~OnPath(k)
        IN  (~(Len(a.tokens) = 0) /\ ~OnPath(Len(a.tokens))) =>
              last.result[1] = [status |-> "miss", match |-> None, consumed |-> matched,
                                next_expected |-> <<>>, timeout_ms |-> None]

\* A miss on the third token after two matched tokens.
C8_Witness ==
    /\ last.op = "resolve"
    /\ last.result[1].status = "miss"
    /\ last.result[1].consumed = 2
    /\ Len(last.args.tokens) = 3

\* C9: after any interleaving of registry mutations and resolve calls, the
\* long-lived resolver answers every query as a freshly constructed resolver
\* (empty cache) over the current registry does, and so did the last call.
C9_CacheNeverStale ==
    /\ \A m \in CacheModes, t \in CacheTokens, c \in CacheContexts :
          Resolve(cache, registry, m, t, c).result
              = Resolve(EmptyDict, registry, m, t, c).result
    /\ last.op = "resolve" =>
          last.result[1] = Resolve(EmptyDict, registry, last.args.mode,
                                   last.args.tokens, last.args.context).result

\* A resolve call has just matched on a rebuilt trie while the trie cached
\* for another mode is out of date.
C9_Witness ==
    /\ last.op = "resolve"
    /\ last.result[1].status = "match"
    /\ cache[last.args.mode].revision = registry.revision
    /\ registry.revision >= 2
    /\ \E m \in DOMAIN cache :
          /\ cache[m].revision < registry.revision
          /\ cache[m].trie # BuildTrie(registry, m)

(***************************************************************************)
(* Properties of the registry (SpecRegistry)                               *)
(***************************************************************************)

SameKey(x, y) == x.mode = y.mode /\ KeySignature(x) = KeySignature(y)

SharesOpposedFlag(x, y) ==
    \E i \in DOMAIN x.when, j \in DOMAIN y.when :
        x.when[i].flag = y.when[j].flag /\ x.when[i].expected # y.when[j].expected

\* The guards in force: (flag, expected) of the last clause of each flag.
GuardSet(x) ==
    {<<x.when[i].flag, x.when[i].expected>> :
        i \in {k \in DOMAIN x.when :
                 \A j \in DOMAIN x.when : x.when[j].flag = x.when[k].flag => j <= k}}

\* The conflict relation as the claim states it.
ClaimedConflict(x, y) ==
    IF x.when = <<>> /\ y.when = <<>> THEN TRUE
    ELSE IF x.when = <<>> \/ y.when = <<>> THEN FALSE
    ELSE ~SharesOpposedFlag(x, y)

\* The conflict relation of the amended claim.
AmendedConflict(x, y) ==
    IF x.when = <<>> /\ y.when = <<>> THEN TRUE
    ELSE IF x.when = <<>> \/ y.when = <<>> THEN FALSE
    ELSE GuardSet(x) = GuardSet(y)

Increments(reg, out) ==
    out.raised = "none" => out.registry.revision = reg.revision + 1

\* What C13 says of the calls on bindings: register_binding and
\* update_binding that return, unregister_binding of a registered id and
\* override_sequence_timeouts with at least one target increment revision,
\* and no call, returning or raising, decreases it.
BindingCallsIncrement(reg) ==
    /\ \A b \in RegistryBindings, r \in BOOLEAN :
          LET out == RegisterBindingOp(reg, b, r)
          IN  Increments(reg, out) /\ out.registry.revision >= reg.revision
    /\ \A id \in {"b1", "b2", "b3"} :
          LET out == UnregisterBindingOp(reg, id)
          IN  /\ id \in DOMAIN reg.bindings => Increments(reg, out)
              /\ out.registry.revision >= reg.revision
    /\ \A id \in {"b1", "b2", "b3"}, ch \in RegistryChanges :
          LET out == UpdateBindingOp(reg, id, ch)
          IN  Increments(reg, out) /\ out.registry.revision >= reg.revision
    /\ \A o \in RegistryOverrides :
          LET out == OverrideSequenceTimeoutsOp(reg, o.timeout_ms, o.mode, o.binding_ids)
              targets == IF o.binding_ids # None THEN o.binding_ids[1]
                         ELSE {b.id : b \in IterBindings(reg, o.mode)}
          IN  /\ targets # {} => Increments(reg, out)
              /\ out.registry.revision >= reg.revision

TableMatchesIndex(reg) ==
    /\ \A k \in DOMAIN reg.bindings : reg.bindings[k].id = k
    /\ \A m \in DOMAIN reg.mode_index : \A sg \in DOMAIN reg.mode_index[m] :
          reg.mode_index[m][sg] =
              {k \in DOMAIN reg.bindings :
                  reg.bindings[k].mode = m /\ KeySignature(reg.bindings[k]) = sg}
    /\ \A k \in DOMAIN reg.bindings :
          k \in Bucket(reg.mode_index, reg.bindings[k].mode, KeySignature(reg.bindings[k]))

\* The failures C11 names, told apart by the exception and the arguments:
\* register_binding with an unknown action, a conflict or a duplicate id;
\* update_binding of an unknown id, to an unknown action, or to a conflict.
FailedAsListed(reg, call) ==
    \/ /\ call.op = "register_binding"
       /\ \/ call.raised \in {"KeymapConflictError", "ValueError"}
          \/ call.raised = "KeyError"
                /\ call.args.binding.action_id \notin DOMAIN reg.actions
    \/ /\ call.op = "update_binding"
       /\ \/ call.raised = "KeymapConflictError"
          \/ call.raised = "KeyError"
                /\ \/ call.args.binding_id \notin DOMAIN reg.bindings
                   \/ ReplaceFields(reg.bindings[call.args.binding_id],
                                    call.args.changes).action_id \notin DOMAIN reg.actions

\* C11: a register_binding call that fails (unknown action, conflict without
\* replace, duplicate id without replace) and an update_binding call that
\* fails (unknown binding id, unknown action, conflict of the updated binding)
\* leave the binding table, the index and the revision exactly as they were.
C11_FailedCallChangesNothing ==
    [][FailedAsListed(registry, last') => registry' = registry]_vars

\* C11 where the table and the index agree before the call.
C11_FailedCallOnAgreeingRegistry ==
    [][(FailedAsListed(registry, last') /\ TableMatchesIndex(registry))
          => registry' = registry]_vars

\* The bindings of the table other than those in gone and the one under id.
Untouched(reg, gone, id) ==
    {k \in DOMAIN reg.bindings : k # id /\ reg.bindings[k] \notin gone}

\* What C12 promises of register_binding(b, replace=True) called on reg and
\* giving out.
ReplaceContract(reg, b, out) ==
    LET conflicts == {e \in {reg.bindings[k] : k \in DOMAIN reg.bindings} :
                         /\ e.mode = b.mode
                         /\ KeySignature(e) = KeySignature(b)
                         /\ ContextsOverlap(b, e)}
        after == out.registry
    IN  /\ out.raised = "none"
        /\ b.id \in DOMAIN after.bindings /\ after.bindings[b.id] = b
        /\ b.id \in Bucket(after.mode_index, b.mode, KeySignature(b))
        /\ \A e \in conflicts \ {b} :
              e \notin {after.bindings[k] : k \in DOMAIN after.bindings}
        /\ \A m \in DOMAIN after.mode_index : \A sg \in DOMAIN after.mode_index[m] :
              b.id \in after.mode_index[m][sg] => m = b.mode /\ sg = KeySignature(b)
        /\ \A k \in Untouched(reg, conflicts, b.id) :
              /\ k \in DOMAIN after.bindings /\ after.bindings[k] = reg.bindings[k]
              /\ k \in Bucket(after.mode_index, reg.bindings[k].mode,
                              KeySignature(reg.bindings[k]))
        /\ DOMAIN after.bindings = Untouched(reg, conflicts, b.id) \cup {b.id}

\* C12: register_binding(b, replace=True) with a registered action always
\* succeeds; afterwards the registry holds b, none of the bindings that
\* conflicted with b and no other binding under the id of b (table and
\* index), and every other binding is as before.
C12_ReplaceAlwaysSucceeds ==
    \A b \in IdsBindings :
        b.action_id \in DOMAIN registry.actions =>
            ReplaceContract(registry, b, RegisterBindingOp(registry, b, TRUE))

\* C12 where the table and the index agree before the call.
C12_ReplaceOnAgreeingRegistry ==
    \A b \in IdsBindings :
        (b.action_id \in DOMAIN registry.actions /\ TableMatchesIndex(registry)) =>
            ReplaceContract(registry, b, RegisterBindingOp(registry, b, TRUE))

(***************************************************************************)
(* modes/base_mode.py, modes/keymap_helpers.py                             *)
(***************************************************************************)

\* KeyInput: modifiers is a tuple of strings, text is Optional[str].
KeyInput(key, modifiers, text) == [key |-> key, modifiers |-> modifiers, text |-> text]

\* ModeResult: switch_to, message and timeout_ms are Optional.
ModeResult(consumed, switch_to, status, message, timeout_ms) ==
    [consumed |-> consumed, switch_to |-> switch_to, status |-> status,
     message |-> message, timeout_ms |-> timeout_ms]

\* Python truthiness of an Optional[int] and of an Optional[str].
TruthyInt(opt) == opt # None /\ opt[1] # 0
TruthyStr(opt) == opt # None /\ opt[1] # ""

\* key_to_token: the modifiers as given, joined with "+", then the key.
KeyToToken(key) ==
    IF key.modifiers # <<>>
    THEN StrJoin(key.modifiers, "+") \o "+" \o key.key
    ELSE key.key

\* update_flag
UpdateFlag(fl, key, value) == DictPut(fl, key, value)

\* The state a call works on, threaded through its steps: the mode layer, the
\* resolver cache, the manager-level steps taken so far (trace) and the events
\* emitted on the bus (emitted).
World(mgr, mds, fl, rcache) ==
    [manager |-> mgr, modes |-> mds, flags |-> fl, cache |-> rcache,
     trace |-> <<>>, emitted |-> <<>>]

\* One manager-level step of a call: a hook, a timer operation or a resolver
\* call, on a mode. other is the other mode of a hook or the status the
\* resolver returned (Optional); generation is the timer generation concerned
\* and count the number of tokens resolved (0 when there is none).
Step(w, step, mode, other, generation, count) ==
    [w EXCEPT !.trace = Append(@, [step |-> step, mode |-> mode, other |-> other,
                                   generation |-> generation, count |-> count])]

\* ModeBus.emit
Emit(w, event, payload) ==
    [w EXCEPT !.emitted = Append(@, [event |-> event, payload |-> payload])]

(***************************************************************************)
(* modes/operator_pipeline.py                                              *)
(***************************************************************************)

\* str.isdigit on a key token.
Digits == {"0", "1", "2", "3", "4", "5", "6", "7", "8", "9"}

DigitValue(d) ==
    CASE d = "0" -> 0 [] d = "1" -> 1 [] d = "2" -> 2 [] d = "3" -> 3 [] d = "4" -> 4
      [] d = "5" -> 5 [] d = "6" -> 6 [] d = "7" -> 7 [] d = "8" -> 8 [] d = "9" -> 9

\* Tokens str.isdigit accepts and int() rejects: "sup2" stands for the one
\* character token SUPERSCRIPT TWO (U+00B2).
OtherDigits == {"sup2"}

\* The length of the leading run of tokens str.isdigit accepts.
RECURSIVE LeadingDigits(_)
LeadingDigits(keys) ==
    IF keys = <<>> \/ keys[1] \notin Digits \cup OtherDigits THEN 0
    ELSE 1 + LeadingDigits(Tail(keys))

\* int("".join(digits)) raises ValueError.
IntRaises(keys) == \E i \in 1..LeadingDigits(keys) : keys[i] \in OtherDigits

\* int("".join(digits))
RECURSIVE IntOf(_)
IntOf(digits) ==
    IF digits = <<>> THEN 0
    ELSE 10 * IntOf(SubSeq(digits, 1, Len(digits) - 1)) + DigitValue(digits[Len(digits)])

\* OperatorPipeline.parse: Optional[ExecutionPlan], for keys whose count
\* int() converts.
PipelineParse(keys) ==
    LET n == LeadingDigits(keys)
        count == IF n > 0 THEN Some(IntOf(SubSeq(keys, 1, n))) ELSE None
        after_count == SubSeq(keys, n + 1, Len(keys))
        motion == IF after_count = <<>> THEN None ELSE Some(after_count[1])
        remaining == IF after_count = <<>> THEN <<>> ELSE Tail(after_count)
    IN  IF remaining = <<>> THEN None
        ELSE Some([operator_id |-> remaining[1], motion_id |-> motion, count |-> count,
                   register_name |-> "\"", raw_input |-> keys])

\* OperatorPipeline.parse: the exception raised, or the plan returned.
Parse(keys) ==
    IF IntRaises(keys) THEN [raised |-> "ValueError", plan |-> None]
    ELSE [raised |-> "none", plan |-> PipelineParse(keys)]

\* OperatorPipeline.build_context, without the buffer and the register bank.
BuildContext(plan) ==
    [count |-> plan.count, motion_id |-> plan.motion_id,
     register_name |-> plan.register_name, operator |-> plan.operator_id]

(***************************************************************************)
(* actions/core.py and host-supplied handlers                              *)
(***************************************************************************)

\* What a handler returns: Optional[ModeResult]. The core handlers return a
\* ModeResult; a host handler may return None or any ModeResult.
HandlerOutcome(handler) ==
    CASE handler = "enter_insert_mode" ->
            Some(ModeResult(TRUE, Some("insert"), "ok", Some("enter_insert"), None))
      [] handler = "exit_to_normal_mode" ->
            Some(ModeResult(TRUE, Some("normal"), "ok", Some("exit_insert"), None))
      [] handler = "enter_visual_mode" ->
            Some(ModeResult(TRUE, Some("visual"), "ok", Some("enter_visual"), None))
      [] handler = "enter_command_mode" ->
            Some(ModeResult(TRUE, Some("command"), "ok", Some("enter_command"), None))
      [] handler = "noop_action" ->
            Some(ModeResult(TRUE, None, "noop", None, None))
      [] handler = "returns_timeout" ->
            Some(ModeResult(TRUE, None, "ok", None, Some(500)))
      [] handler = "returns_switch_and_timeout" ->
            Some(ModeResult(TRUE, Some("normal"), "ok", None, Some(500)))
      [] handler = "returns_zero_timeout" ->
            Some(ModeResult(TRUE, None, "ok", None, Some(0)))
      [] OTHER -> None

\* _execute_match of every mode: the handler's ModeResult, or
\* ModeResult(consumed=True) when it returned anything else.
ExecuteMatch(w, match) ==
    LET outcome == HandlerOutcome(match.action.handler)
    IN  [w |-> w,
         result |-> IF outcome # None THEN outcome[1]
                    ELSE ModeResult(TRUE, None, "ok", None, None)]

(***************************************************************************)
(* modes/insert_mode.py, visual_mode.py, command_mode.py                   *)
(***************************************************************************)

\* default_pending_timeout_ms of every mode.
DefaultPendingTimeoutMs == 1000

\* What a mode holds once resolver.resolve has returned out: the resolver's
\* cache, the step taken and the ResolutionResult.
Resolved(w, name, tokens, out) ==
    [w |-> Step([w EXCEPT !.cache = out.cache], "resolve", name,
                Some(out.result.status), 0, Len(tokens)),
     result |-> out.result]

\* A mode's call of resolver.resolve on its own name with the shared flags.
ModeResolve(w, name, tokens) ==
    Resolved(w, name, tokens, Resolve(w.cache, registry, name, tokens, w.flags))

\* handle_timeout of every mode once the resolver has answered for the tokens
\* that were pending: the matched action, or the pending_timeout result.
TimeoutResolved(r) ==
    IF r.result.status = "match" /\ r.result.match # None
    THEN ExecuteMatch(r.w, r.result.match[1])
    ELSE [w |-> r.w,
          result |-> ModeResult(FALSE, None, "timeout", Some("pending_timeout"), None)]

\* The pending result of handle_key: result.timeout_ms or the mode's default.
AwaitingSequence(result) ==
    ModeResult(TRUE, None, "pending", Some("awaiting_sequence"),
               Some(IF TruthyInt(result.timeout_ms) THEN result.timeout_ms[1]
                    ELSE DefaultPendingTimeoutMs))

EscapeKeys == {"ESC", "<Esc>"}

InsertOnExit(w, next_mode) == [w EXCEPT !.modes.insert.pending = <<>>]

InsertResolvedKeepsPendingOnMiss(r, key) ==
    LET cleared == [r.w EXCEPT !.modes.insert.pending = <<>>]
    IN  IF r.result.status = "match" /\ r.result.match # None
        THEN ExecuteMatch(cleared, r.result.match[1])
        ELSE IF r.result.status = "pending"
        THEN [w |-> r.w, result |-> AwaitingSequence(r.result)]
        ELSE IF key.key \in EscapeKeys
        THEN [w |-> cleared,
              result |-> ModeResult(TRUE, Some("normal"), "ok", Some("exit_insert"), None)]
        ELSE [w |-> r.w, result |-> ModeResult(FALSE, None, "ok", None, None)]

\* InsertMode.handle_key after the resolver's answer r for the pending tokens.
InsertResolved(r, key) ==
    LET cleared == [r.w EXCEPT !.modes.insert.pending = <<>>]
    IN  IF r.result.status = "match" /\ r.result.match # None
        THEN ExecuteMatch(cleared, r.result.match[1])
        ELSE IF r.result.status = "pending"
        THEN [w |-> r.w, result |-> AwaitingSequence(r.result)]
        ELSE IF key.key \in EscapeKeys
        THEN [w |-> cleared,
              result |-> ModeResult(TRUE, Some("normal"), "ok", Some("exit_insert"), None)]
        ELSE [w |-> cleared, result |-> ModeResult(FALSE, None, "ok", None, None)]

InsertHandleKey(w, key) ==
    LET pending == Append(w.modes.insert.pending, KeyToToken(key))
    IN  InsertResolved(
            ModeResolve([w EXCEPT !.modes.insert.pending = pending], "insert", pending),
            key)

InsertHandleTimeout(w) ==
    IF w.modes.insert.pending = <<>>
    THEN [w |-> w, result |-> ModeResult(FALSE, None, "timeout", None, None)]
    ELSE TimeoutResolved(ModeResolve([w EXCEPT !.modes.insert.pending = <<>>], "insert",
                                     w.modes.insert.pending))

\* VisualMode.on_enter and on_exit, without the anchor and the selection.
VisualOnEnter(w, previous) ==
    [w EXCEPT !.flags = UpdateFlag(@, "visual_active", TRUE),
              !.modes.visual.pending = <<>>,
              !.modes.visual.operator_tokens = <<>>]

VisualOnExit(w, next_mode) ==
    [w EXCEPT !.flags = UpdateFlag(@, "visual_active", FALSE),
              !.modes.visual.pending = <<>>,
              !.modes.visual.operator_tokens = <<>>]

\* VisualMode.handle_key after the resolver's answer r for the pending tokens.
VisualResolved(r, key) ==
    LET operator_tokens == Append(r.w.modes.visual.operator_tokens, KeyToToken(key))
        plan == PipelineParse(operator_tokens)
    IN  IF r.result.status = "match" /\ r.result.match # None
        THEN ExecuteMatch([r.w EXCEPT !.modes.visual.pending = <<>>,
                                      !.modes.visual.operator_tokens = <<>>],
                          r.result.match[1])
        ELSE IF r.result.status = "pending"
        THEN [w |-> r.w, result |-> AwaitingSequence(r.result)]
        ELSE IF plan # None
        THEN [w |-> Emit([r.w EXCEPT !.modes.visual.pending = <<>>,
                                     !.modes.visual.operator_tokens = <<>>],
                         "operator.plan", Some(BuildContext(plan[1]))),
              result |-> ModeResult(TRUE, None, "operator", Some("operator_plan"), None)]
        ELSE IF key.key \in EscapeKeys
        THEN [w |-> [r.w EXCEPT !.modes.visual.pending = <<>>,
                                !.modes.visual.operator_tokens = <<>>],
              result |-> ModeResult(TRUE, Some("normal"), "ok", Some("exit_visual"), None)]
        ELSE [w |-> [r.w EXCEPT !.modes.visual.pending = <<>>,
                                !.modes.visual.operator_tokens = operator_tokens],
              result |-> ModeResult(TRUE, None, "pending", Some("operator_pending"),
                                    Some(DefaultPendingTimeoutMs))]

VisualHandleKey(w, key) ==
    LET pending == Append(w.modes.visual.pending, KeyToToken(key))
    IN  VisualResolved(
            ModeResolve([w EXCEPT !.modes.visual.pending = pending], "visual", pending),
            key)

VisualHandleTimeoutKeepsOperatorTokens(w) ==
    IF w.modes.visual.pending # <<>>
    THEN TimeoutResolved(ModeResolve([w EXCEPT !.modes.visual.pending = <<>>],
                                     "visual", w.modes.visual.pending))
    ELSE IF w.modes.visual.operator_tokens # <<>>
    THEN [w |-> [w EXCEPT !.modes.visual.operator_tokens = <<>>],
          result |-> ModeResult(FALSE, None, "timeout", Some("operator_timeout"), None)]
    ELSE [w |-> w, result |-> ModeResult(FALSE, None, "timeout", None, None)]

VisualHandleTimeout(w) ==
    IF w.modes.visual.pending # <<>>
    THEN TimeoutResolved(ModeResolve([w EXCEPT !.modes.visual.pending = <<>>,
                                               !.modes.visual.operator_tokens = <<>>],
                                     "visual", w.modes.visual.pending))
    ELSE IF w.modes.visual.operator_tokens # <<>>
    THEN [w |-> [w EXCEPT !.modes.visual.operator_tokens = <<>>],
          result |-> ModeResult(FALSE, None, "timeout", Some("operator_timeout"), None)]
    ELSE [w |-> w, result |-> ModeResult(FALSE, None, "timeout", None, None)]

\* current_command: "".join(self._typed)
CurrentCommand(w) == StrJoin(w.modes.command.typed, "")

\* _sync_command_state: extras["command_state"]["text"] = current_command
SyncCommandState(w) == [w EXCEPT !.modes.command.command_state = Some(CurrentCommand(w))]

CommandOnEnter(w, previous) ==
    SyncCommandState(
        Emit([w EXCEPT !.modes.command.typed = <<>>,
                       !.flags = UpdateFlag(@, "command_active", TRUE)],
             "command.start", None))

CommandOnExit(w, next_mode) ==
    LET w1 == [w EXCEPT !.flags = UpdateFlag(@, "command_active", FALSE),
                        !.modes.command.pending = <<>>]
        w2 == Emit(w1, "command.end", Some(CurrentCommand(w1)))
    IN  SyncCommandState([w2 EXCEPT !.modes.command.typed = <<>>])

HandleTextInput(w, key) ==
    IF key.key \in EscapeKeys
    THEN [w |-> SyncCommandState([w EXCEPT !.modes.command.typed = <<>>]),
          result |-> ModeResult(TRUE, Some("normal"), "ok", Some("command_cancel"), None)]
    ELSE IF key.key \in {"ENTER", "RETURN"}
    THEN [w |-> SyncCommandState(
                    [Emit(w, "command.submit", Some(CurrentCommand(w)))
                        EXCEPT !.modes.command.typed = <<>>]),
          result |-> ModeResult(TRUE, Some("normal"), "command_submit",
                                Some(CurrentCommand(w)), None)]
    ELSE IF key.key = "BACKSPACE" /\ w.modes.command.typed # <<>>
    THEN [w |-> SyncCommandState(
                    [w EXCEPT !.modes.command.typed = SubSeq(@, 1, Len(@) - 1)]),
          result |-> ModeResult(TRUE, None, "editing", None, None)]
    ELSE IF TruthyStr(key.text)
    THEN [w |-> SyncCommandState([w EXCEPT !.modes.command.typed = Append(@, key.text[1])]),
          result |-> ModeResult(TRUE, None, "editing", None, None)]
    ELSE [w |-> w, result |-> ModeResult(FALSE, None, "miss", Some("unhandled"), None)]

\* CommandMode.handle_key after the resolver's answer r for the pending tokens.
CommandResolved(r, key) ==
    LET cleared == [r.w EXCEPT !.modes.command.pending = <<>>]
    IN  IF r.result.status = "match" /\ r.result.match # None
        THEN ExecuteMatch(cleared, r.result.match[1])
        ELSE IF r.result.status = "pending"
        THEN [w |-> r.w, result |-> AwaitingSequence(r.result)]
        ELSE HandleTextInput(cleared, key)

CommandHandleKey(w, key) ==
    LET pending == Append(w.modes.command.pending, KeyToToken(key))
    IN  CommandResolved(
            ModeResolve([w EXCEPT !.modes.command.pending = pending], "command", pending),
            key)

CommandHandleTimeout(w) ==
    IF w.modes.command.pending = <<>>
    THEN [w |-> w, result |-> ModeResult(FALSE, None, "timeout", None, None)]
    ELSE TimeoutResolved(ModeResolve([w EXCEPT !.modes.command.pending = <<>>], "command",
                                     w.modes.command.pending))

(***************************************************************************)
(* NormalMode (modes/normal_mode.py is not part of the sources; modelled   *)
(* from the specification, section 4.3 and 4.5)                            *)
(***************************************************************************)

NormalOnExit(w, next_mode) == [w EXCEPT !.modes.normal.pending = <<>>]

NormalResolved(r, key) ==
    LET cleared == [r.w EXCEPT !.modes.normal.pending = <<>>]
        plan == PipelineParse(r.w.modes.normal.pending)
    IN  IF r.result.status = "match" /\ r.result.match # None
        THEN ExecuteMatch(cleared, r.result.match[1])
        ELSE IF r.result.status = "pending"
        THEN [w |-> r.w, result |-> AwaitingSequence(r.result)]
        ELSE IF plan # None
        THEN [w |-> Emit(cleared, "operator.plan", Some(BuildContext(plan[1]))),
              result |-> ModeResult(TRUE, None, "operator", Some("operator_plan"), None)]
        ELSE [w |-> cleared, result |-> ModeResult(FALSE, None, "ok", None, None)]

NormalHandleKey(w, key) ==
    LET pending == Append(w.modes.normal.pending, KeyToToken(key))
    IN  NormalResolved(
            ModeResolve([w EXCEPT !.modes.normal.pending = pending], "normal", pending),
            key)

NormalHandleTimeout(w) ==
    IF w.modes.normal.pending = <<>>
    THEN [w |-> w, result |-> ModeResult(FALSE, None, "timeout", None, None)]
    ELSE TimeoutResolved(ModeResolve([w EXCEPT !.modes.normal.pending = <<>>], "normal",
                                     w.modes.normal.pending))

(***************************************************************************)
(* modes/mode_manager.py                                                   *)
(***************************************************************************)

\* The hooks and handlers of the registered mode classes; Mode.on_enter and
\* Mode.on_exit of base_mode.py do nothing.
ModeOnEnter(w, name, previous) ==
    LET w1 == Step(w, "on_enter", name, previous, 0, 0)
    IN  CASE name = "visual" -> VisualOnEnter(w1, previous)
          [] name = "command" -> CommandOnEnter(w1, previous)
          [] OTHER -> w1

ModeOnExit(w, name, next_mode) ==
    LET w1 == Step(w, "on_exit", name, Some(next_mode), 0, 0)
    IN  CASE name = "normal" -> NormalOnExit(w1, next_mode)
          [] name = "insert" -> InsertOnExit(w1, next_mode)
          [] name = "visual" -> VisualOnExit(w1, next_mode)
          [] name = "command" -> CommandOnExit(w1, next_mode)
          [] OTHER -> w1

ModeHandleKey(w, name, key) ==
    CASE name = "normal" -> NormalHandleKey(w, key)
      [] name = "insert" -> InsertHandleKey(w, key)
      [] name = "visual" -> VisualHandleKey(w, key)
      [] name = "command" -> CommandHandleKey(w, key)

ModeHandleTimeout(w, name) ==
    CASE name = "normal" -> NormalHandleTimeout(w)
      [] name = "insert" -> InsertHandleTimeout(w)
      [] name = "visual" -> VisualHandleTimeout(w)
      [] name = "command" -> CommandHandleTimeout(w)

\* _pending_timeouts is a dict: its items in insertion order, one per mode
\* name. A timer keeps remaining_ms = deadline - time.monotonic().
TimerOf(timers, name) ==
    LET hits == SelectSeq(timers, LAMBDA t : t.name = name)
    IN  IF hits = <<>> THEN None ELSE Some(hits[1])

\* d[name] = timer: in place when the key exists, at the end otherwise.
TimersPut(timers, timer) ==
    IF \E i \in DOMAIN timers : timers[i].name = timer.name
    THEN [i \in DOMAIN timers |-> IF timers[i].name = timer.name THEN timer ELSE timers[i]]
    ELSE Append(timers, timer)

\* d.pop(name, None)
TimersPop(timers, name) == SelectSeq(timers, LAMBDA t : t.name # name)

ArmTimeoutKeepsGeneration(w, mode_name, timeout_ms) ==
    LET old == TimerOf(w.manager.pending_timeouts, mode_name)
        generation == IF old # None THEN old[1].generation
                      ELSE w.manager.timer_counter + 1
    IN  Step([w EXCEPT !.manager.timer_counter = @ + 1,
                       !.manager.pending_timeouts =
                           TimersPut(@, [name |-> mode_name, remaining_ms |-> timeout_ms,
                                         timeout_ms |-> timeout_ms,
                                         generation |-> generation])],
             "arm_timeout", mode_name, None, generation, 0)

ArmTimeout(w, mode_name, timeout_ms) ==
    LET generation == w.manager.timer_counter + 1
    IN  Step([w EXCEPT !.manager.timer_counter = generation,
                       !.manager.pending_timeouts =
                           TimersPut(@, [name |-> mode_name, remaining_ms |-> timeout_ms,
                                         timeout_ms |-> timeout_ms,
                                         generation |-> generation])],
             "arm_timeout", mode_name, None, generation, 0)

\* A cancel_timeout that leaves the timer where it is.
CancelTimeoutKeepsTimer(w, mode_name) ==
    LET timer == TimerOf(w.manager.pending_timeouts, mode_name)
    IN  Step(w, "cancel_timeout", mode_name, None,
             IF timer = None THEN 0 ELSE timer[1].generation, 0)

\* cancel_timeout; the step records the generation of the timer it removed.
CancelTimeout(w, mode_name) ==
    LET timer == TimerOf(w.manager.pending_timeouts, mode_name)
    IN  Step([w EXCEPT !.manager.pending_timeouts = TimersPop(@, mode_name)],
             "cancel_timeout", mode_name, None,
             IF timer = None THEN 0 ELSE timer[1].generation, 0)

SwitchModeKeepsIncomingTimer(w, name) ==
    LET previous == w.manager.active
    IN  IF previous # None /\ previous[1] = name THEN w
        ELSE LET w1 == IF previous # None
                       THEN ModeOnExit(CancelTimeout(w, previous[1]), previous[1], name)
                       ELSE w
                 w2 == Step([w1 EXCEPT !.manager.active = Some(name)],
                            "set_active", name, None, 0, 0)
             IN  ModeOnEnter(w2, name, previous)

\* ModeManager.switch_mode for a registered name.
SwitchMode(w, name) ==
    LET previous == w.manager.active
    IN  IF previous # None /\ previous[1] = name THEN w
        ELSE LET w1 == IF previous # None
                       THEN ModeOnExit(CancelTimeout(w, previous[1]), previous[1], name)
                       ELSE w
                 w2 == Step([w1 EXCEPT !.manager.active = Some(name)],
                            "set_active", name, None, 0, 0)
             IN  CancelTimeout(ModeOnEnter(w2, name, previous), name)

AfterModeResultSwitchesFirst(w, mode, result) ==
    LET w1 == IF TruthyStr(result.switch_to) THEN SwitchMode(w, result.switch_to[1]) ELSE w
    IN  [w |-> IF TruthyInt(result.timeout_ms)
               THEN ArmTimeout(w1, mode, result.timeout_ms[1])
               ELSE CancelTimeout(w1, mode),
         result |-> result]

AfterModeResult(w, mode, result) ==
    LET w1 == IF TruthyInt(result.timeout_ms)
              THEN ArmTimeout(w, mode, result.timeout_ms[1])
              ELSE CancelTimeout(w, mode)
    IN  [w |-> IF TruthyStr(result.switch_to) THEN SwitchMode(w1, result.switch_to[1]) ELSE w1,
         result |-> result]

\* return self._after_mode_result(mode, result), result being what the mode's
\* handler returned and r.w the state it left.
Applied(r, mode) == AfterModeResult(r.w, mode, r.result)

\* ModeManager.handle_key with an active mode.
HandleKeyOp(w, key) ==
    LET mode == w.manager.active[1]
    IN  Applied(ModeHandleKey(Step(w, "handle_key", mode, None, 0, 0), mode, key), mode)

TimeoutResult == ModeResult(FALSE, None, "timeout", None, None)

\* ModeManager._trigger_timeout
TriggerTimeoutAnyGeneration(w, mode_name, generation) ==
    LET timer == TimerOf(w.manager.pending_timeouts, mode_name)
        popped == [w EXCEPT !.manager.pending_timeouts = TimersPop(@, mode_name)]
    IN  IF timer = None
        THEN [w |-> w, result |-> TimeoutResult]
        ELSE Applied(ModeHandleTimeout(
                         Step(popped, "handle_timeout", mode_name, None, generation, 0),
                         mode_name),
                     mode_name)

TriggerTimeout(w, mode_name, generation) ==
    LET timer == TimerOf(w.manager.pending_timeouts, mode_name)
        popped == [w EXCEPT !.manager.pending_timeouts = TimersPop(@, mode_name)]
    IN  IF timer = None \/ timer[1].generation # generation
        THEN [w |-> w, result |-> TimeoutResult]
        ELSE IF mode_name \notin DOMAIN w.modes
        THEN [w |-> popped, result |-> TimeoutResult]
        ELSE Applied(ModeHandleTimeout(
                         Step(popped, "handle_timeout", mode_name, None, generation, 0),
                         mode_name),
                     mode_name)

\* The loop of force_timeout and process_timeouts over the timers collected
\* before the first of them is triggered.
RECURSIVE TriggerAll(_, _, _)

\* results[name] = self._trigger_timeout(name, generation), then the next timer.
Triggered(r, timers, results) ==
    TriggerAll(r.w, Tail(timers), DictPut(results, timers[1].name, r.result))

TriggerAll(w, timers, results) ==
    IF timers = <<>> THEN [w |-> w, result |-> results]
    ELSE Triggered(TriggerTimeout(w, timers[1].name, timers[1].generation), timers, results)

\* ModeManager.force_timeout(mode_name), mode_name Optional.
ForceTimeoutOp(w, mode_name) ==
    IF mode_name # None
    THEN IF TimerOf(w.manager.pending_timeouts, mode_name[1]) = None
         THEN [w |-> w, result |-> EmptyDict]
         ELSE TriggerAll(w, <<TimerOf(w.manager.pending_timeouts, mode_name[1])[1]>>, EmptyDict)
    ELSE TriggerAll(w, w.manager.pending_timeouts, EmptyDict)

\* ModeManager.process_timeouts: the timers whose deadline is not after now.
ProcessTimeoutsOp(w) ==
    TriggerAll(w, SelectSeq(w.manager.pending_timeouts, LAMBDA t : t.remaining_ms <= 0),
               EmptyDict)

(***************************************************************************)
(* The mode manager driven by a host (SpecModes)                           *)
(***************************************************************************)

MaxTimerCounter == 3
MaxTyped == 1

\* The time between two looks at the clock.
TickMs == 500

WithinBounds(w) ==
    /\ w.manager.timer_counter <= MaxTimerCounter
    /\ Len(w.modes.command.typed) <= MaxTyped

\* The record of a host call on the mode layer.
ModeCall(op, args, raised, result, w) ==
    [op |-> op, args |-> args, raised |-> raised, result |-> result,
     trace |-> w.trace, emitted |-> w.emitted]

Commit(w) ==
    /\ WithinBounds(w)
    /\ manager' = w.manager
    /\ modes' = w.modes
    /\ flags' = w.flags
    /\ cache' = w.cache
    /\ UNCHANGED <<registry, buffer, visual_state>>

\* A call that returned out.result and left the state out.w.
Return(op, args, out) ==
    /\ Commit(out.w)
    /\ last' = ModeCall(op, args, "none", out.result, out.w)

Now == World(manager, modes, flags, cache)

\* The value a call returned: Some(result).
Value(out) == [w |-> out.w, result |-> Some(out.result)]

\* A call that returns nothing.
NoValue(w) == [w |-> w, result |-> None]

HandleKey(key) ==
    /\ manager.active # None
    /\ Return("handle_key", NoArgs, Value(HandleKeyOp(Now, key)))

SwitchModeCall(name) ==
    IF name \notin DOMAIN modes
    THEN /\ last' = ModeCall("switch_mode", [name |-> name], "KeyError", None, Now)
         /\ UNCHANGED <<registry, cache, modeVars>>
    ELSE Return("switch_mode", [name |-> name], NoValue(SwitchMode(Now, name)))

ArmTimeoutCall(mode_name, timeout_ms) ==
    /\ Return("arm_timeout", [mode_name |-> mode_name],
              NoValue(ArmTimeout(Now, mode_name, timeout_ms)))

ForceTimeout(mode_name) ==
    /\ Return("force_timeout", [mode_name |-> mode_name],
              Value(ForceTimeoutOp(Now, mode_name)))

ProcessTimeouts ==
    /\ Return("process_timeouts", NoArgs, Value(ProcessTimeoutsOp(Now)))

\* time.monotonic() advances: every deadline comes TickMs closer.
TimePasses ==
    /\ \E i \in DOMAIN manager.pending_timeouts : manager.pending_timeouts[i].remaining_ms > 0
    /\ manager' = [manager EXCEPT !.pending_timeouts =
                      [i \in DOMAIN manager.pending_timeouts |->
                          [manager.pending_timeouts[i] EXCEPT !.remaining_ms =
                              IF @ > TickMs THEN @ - TickMs ELSE 0]]]
    /\ last' = ModeCall("time_passes", NoArgs, "none", None, Now)
    /\ UNCHANGED <<registry, cache, modes, flags, buffer, visual_state>>

\* The host sets a keymap flag.
UpdateFlagCall(key, value) ==
    /\ flags' = UpdateFlag(flags, key, value)
    /\ last' = ModeCall("update_flag", NoArgs, "none", None, Now)
    /\ UNCHANGED <<registry, cache, manager, modes, buffer, visual_state>>

\* The host's registry: the core mode-switch actions and bindings of
\* keymaps/defaults.py, multi-key bindings in every mode, and host handlers.
ModeActions ==
    << [id |-> "core.enter_insert", handler |-> "enter_insert_mode"],
       [id |-> "core.exit_to_normal", handler |-> "exit_to_normal_mode"],
       [id |-> "core.enter_visual", handler |-> "enter_visual_mode"],
       [id |-> "core.enter_command", handler |-> "enter_command_mode"],
       [id |-> "core.noop", handler |-> "noop_action"],
       [id |-> "host.rearm", handler |-> "returns_timeout"],
       [id |-> "host.leave_with_timeout", handler |-> "returns_switch_and_timeout"],
       [id |-> "host.zero_timeout", handler |-> "returns_zero_timeout"] >>

ModeBindings ==
    << MakeBinding("normal.enter_insert", "normal", <<"i">>, 1000, "core.enter_insert", <<>>, 0),
       MakeBinding("normal.enter_visual", "normal", <<"v">>, 1000, "core.enter_visual", <<>>, 0),
       MakeBinding("normal.enter_command", "normal", <<":">>, 1000, "core.enter_command", <<>>, 0),
       MakeBinding("normal.gg", "normal", <<"g", "g">>, 1000, "core.noop", <<>>, 0),
       MakeBinding("normal.gjk", "normal", <<"g", "j", "k">>, 500, "core.noop", <<>>, 0),
       MakeBinding("insert.jk", "insert", <<"j", "k">>, 1000, "core.exit_to_normal", <<>>, 0),
       MakeBinding("insert.j_panel", "insert", <<"j">>, 1000, "host.rearm",
                   <<When("panel_open", TRUE)>>, 0),
       MakeBinding("visual.gg", "visual", <<"g", "g">>, 1000, "host.leave_with_timeout", <<>>, 0),
       MakeBinding("command.gg", "command", <<"g", "g">>, 1000, "host.zero_timeout", <<>>, 0) >>

RECURSIVE RegisterActions(_, _)
RegisterActions(reg, actions) ==
    IF actions = <<>> THEN reg
    ELSE RegisterActions(RegisterActionOp(reg, actions[1], FALSE).registry, Tail(actions))

RECURSIVE RegisterBindings(_, _)
RegisterBindings(reg, bindings) ==
    IF bindings = <<>> THEN reg
    ELSE RegisterBindings(RegisterBindingOp(reg, bindings[1], FALSE).registry, Tail(bindings))

ModeRegistry == RegisterBindings(RegisterActions(EmptyRegistry, ModeActions), ModeBindings)

\* The key events of the host.
ModeKeys ==
    {KeyInput(k, <<>>, None) : k \in {"g", "j", "k", "i", "v", ":", "d", "ESC"}}
        \cup {KeyInput("a", <<>>, Some("a"))}

ModeNames == {"normal", "insert", "visual", "command"}

\* The manager after register_mode of NormalMode, InsertMode, VisualMode and
\* CommandMode in this order: the first registered mode is active.
InitModes ==
    /\ registry = ModeRegistry
    /\ cache = EmptyDict
    /\ manager = [active |-> Some("normal"), pending_timeouts |-> <<>>, timer_counter |-> 0]
    /\ modes = [normal |-> [pending |-> <<>>],
                insert |-> [pending |-> <<>>],
                visual |-> [pending |-> <<>>, operator_tokens |-> <<>>],
                command |-> [pending |-> <<>>, typed |-> <<>>, command_state |-> None]]
    /\ flags = EmptyDict
    /\ buffer = DefaultBuffer
    /\ visual_state = None
    /\ last = [op |-> "register_mode", args |-> NoArgs, raised |-> "none", result |-> None,
               trace |-> <<[step |-> "on_enter", mode |-> "normal", other |-> None,
                            generation |-> 0, count |-> 0]>>,
               emitted |-> <<>>]

\* The host presses keys, switches modes, arms timers and forces timeouts.
NextModes ==
    \/ \E key \in ModeKeys : HandleKey(key)
    \/ \E name \in ModeNames \cup {"replace"} : SwitchModeCall(name)
    \/ ArmTimeoutCall("insert", 500)
    \/ \E name \in {None, Some("normal"), Some("insert"), Some("visual")} : ForceTimeout(name)

SpecModes == InitModes /\ [][NextModes]_vars

\* The host presses keys, sets a flag and polls the timers as time passes.
NextTimeouts ==
    \/ \E key \in ModeKeys : HandleKey(key)
    \/ UpdateFlagCall("panel_open", TRUE)
    \/ TimePasses
    \/ ProcessTimeouts
    \/ ForceTimeout(None)

SpecTimeouts == InitModes /\ [][NextTimeouts]_vars

\* The same host with the scheduling of adapters/textual/app.py: the clock
\* keeps advancing while a deadline lies ahead, and process_timeouts is called
\* again and again (set_interval(0.1, ...)).
SpecTimeoutsPolled ==
    SpecTimeouts /\ WF_vars(TimePasses) /\ []<>(last.op = "process_timeouts")

(***************************************************************************)
(* Properties of the mode manager (SpecModes)                              *)
(***************************************************************************)

\* The kinds of the steps of a trace, in order.
Kinds(trace) == [i \in DOMAIN trace |-> trace[i].step]

\* The steps of one kind on one mode.
StepsOn(trace, kind, mode) ==
    SelectSeq(trace, LAMBDA st : st.step = kind /\ st.mode = mode)

SwitchKinds == <<"cancel_timeout", "on_exit", "set_active", "on_enter", "cancel_timeout">>

\* The contract of one handle_key step; timeout_set says when the result's
\* timeout_ms counts as set.
HandleKeyContract(timeout_set) ==
    LET mode == manager.active[1]
        r == last'.result[1]
        t == last'.trace
        k == CHOOSE i \in DOMAIN t :
                /\ t[i].step \in {"arm_timeout", "cancel_timeout"}
                /\ \A j \in 1..(i - 1) : t[j].step \notin {"arm_timeout", "cancel_timeout"}
        leaves == r.switch_to # None /\ r.switch_to[1] # mode
        timer == TimerOf(manager'.pending_timeouts, mode)
    IN  /\ t[1].step = "handle_key" /\ t[1].mode = mode
        /\ \A j \in 2..(k - 1) : t[j].step = "resolve" /\ t[j].mode = mode
        /\ t[k].mode = mode
        /\ (t[k].step = "arm_timeout") <=> timeout_set
        /\ IF leaves
           THEN /\ Kinds(SubSeq(t, k + 1, Len(t))) = SwitchKinds
                /\ manager'.active = r.switch_to
                /\ timer = None
           ELSE /\ Len(t) = k
                /\ manager'.active = manager.active
                /\ timeout_set =>
                      /\ timer # None
                      /\ timer[1].generation = manager.timer_counter + 1
                      /\ timer[1].timeout_ms = r.timeout_ms[1]
        /\ ~timeout_set => timer = None

\* C1 as stated: handle_key delegates to the mode active at the start, then
\* arms a fresh timer for it when the result's timeout_ms is set (not None),
\* else cancels, and only then switches; no timer of the handling mode
\* survives a result without timeout_ms or a switch to another mode.
C1_ArmsWhenTimeoutSet ==
    [][last'.op = "handle_key" => HandleKeyContract(last'.result[1].timeout_ms # None)]_vars

\* C1 amended: the timer is armed exactly when the result's timeout_ms is a
\* number other than 0; a result whose timeout_ms is None or 0 cancels the
\* mode's timer. Order and consequences as stated.
C1_ArmsWhenTimeoutNonZero ==
    [][last'.op = "handle_key" => HandleKeyContract(TruthyInt(last'.result[1].timeout_ms))]_vars

\* A key whose result carried both switch_to and timeout_ms: the timer was
\* armed, then cancelled by the switch, and no timer is left.
C1_Witness ==
    /\ last.op = "handle_key"
    /\ last.result[1].switch_to = Some("normal")
    /\ last.result[1].timeout_ms = Some(500)
    /\ Len(StepsOn(last.trace, "arm_timeout", "visual")) = 1
    /\ manager.active = Some("normal")
    /\ manager.pending_timeouts = <<>>

\* C2: switch_mode to a registered mode other than the active one cancels the
\* outgoing timer, calls outgoing.on_exit(name), sets the active mode, calls
\* incoming.on_enter(previous), cancels the incoming timer, in this order, and
\* leaves neither mode with a timer; switch_mode to the active mode calls no
\* hook and changes neither the active mode nor any timer.
C2_SwitchModeSteps ==
    [][(last'.op = "switch_mode" /\ last'.raised = "none") =>
        LET name == last'.args.name
            previous == manager.active[1]
            t == last'.trace
        IN  IF name = previous
            THEN /\ t = <<>>
                 /\ last'.emitted = <<>>
                 /\ UNCHANGED <<manager, modes, flags>>
            ELSE /\ Kinds(t) = SwitchKinds
                 /\ [i \in DOMAIN t |-> t[i].mode] = <<previous, previous, name, name, name>>
                 /\ t[2].other = Some(name)
                 /\ t[4].other = Some(previous)
                 /\ manager'.active = Some(name)
                 /\ TimerOf(manager'.pending_timeouts, previous) = None
                 /\ TimerOf(manager'.pending_timeouts, name) = None
                 /\ manager'.timer_counter = manager.timer_counter
                 /\ modes'[previous].pending = <<>>]_vars

\* A switch that removed a timer of the outgoing and a timer of the incoming mode.
C2_Witness ==
    /\ last.op = "switch_mode"
    /\ Len(last.trace) = 5
    /\ last.trace[1].generation > 0
    /\ last.trace[5].generation > 0
    /\ manager.pending_timeouts = <<>>

\* The names that have a timer.
TimerNames(timers) == {timers[i].name : i \in DOMAIN timers}

\* C3: arming a mode's timer again before it fires leaves exactly one timer for
\* the mode, of strictly larger generation; force_timeout then invokes the
\* mode's handle_timeout exactly once, for the generation held at the call;
\* force_timeout on a mode without timer, and a second force_timeout with no
\* arm in between, invoke nothing and return an empty result.
C3_RearmAndForce ==
    [][/\ \A name \in TimerNames(manager'.pending_timeouts) :
            /\ Len(SelectSeq(manager'.pending_timeouts, LAMBDA x : x.name = name)) = 1
            /\ (name \in TimerNames(manager.pending_timeouts)
                /\ StepsOn(last'.trace, "arm_timeout", name) # <<>>) =>
                  TimerOf(manager'.pending_timeouts, name)[1].generation
                      > TimerOf(manager.pending_timeouts, name)[1].generation
       /\ (last'.op = "force_timeout" /\ last'.args.mode_name # None) =>
            LET name == last'.args.mode_name[1]
                old == TimerOf(manager.pending_timeouts, name)
                fired == StepsOn(last'.trace, "handle_timeout", name)
            IN  IF old = None
                THEN /\ last'.result[1] = EmptyDict
                     /\ last'.trace = <<>>
                     /\ UNCHANGED <<manager, modes, flags>>
                ELSE /\ DOMAIN last'.result[1] = {name}
                     /\ Len(fired) = 1
                     /\ fired[1].generation = old[1].generation
                     /\ Len(SelectSeq(last'.trace, LAMBDA st : st.step = "handle_timeout")) = 1
       /\ (last'.op = "force_timeout" /\ last'.args.mode_name = None) =>
            /\ DOMAIN last'.result[1] = TimerNames(manager.pending_timeouts)
            /\ \A name \in ModeNames :
                  Len(StepsOn(last'.trace, "handle_timeout", name))
                      <= (IF name \in TimerNames(manager.pending_timeouts) THEN 1 ELSE 0)
       /\ (/\ last.op = "force_timeout"
           /\ last'.op = "force_timeout"
           /\ last'.args = last.args
           /\ SelectSeq(last.trace, LAMBDA st : st.step = "arm_timeout") = <<>>) =>
            /\ last'.result[1] = EmptyDict
            /\ last'.trace = <<>>
      ]_vars

\* force_timeout has fired the second of two timers armed by two keys of the
\* same ambiguous prefix (two tokens were pending), and no timer is left.
C3_Witness ==
    /\ last.op = "force_timeout"
    /\ manager.timer_counter = 2
    /\ manager.pending_timeouts = <<>>
    /\ \E i \in DOMAIN last.trace :
          /\ last.trace[i].step = "handle_timeout"
          /\ last.trace[i].generation = 2
          /\ i < Len(last.trace)
          /\ last.trace[i + 1].step = "resolve"
          /\ last.trace[i + 1].mode = last.trace[i].mode
          /\ last.trace[i + 1].count = 2

(***************************************************************************)
(* Properties of pending sequences (SpecTimeouts)                          *)
(***************************************************************************)

\* The tokens a mode is holding: its pending tokens and, for Visual, its
\* operator tokens.
Held(mds, name) ==
    IF name = "visual" THEN mds[name].pending \o mds[name].operator_tokens
    ELSE mds[name].pending

\* What a call on the manager does to pending tokens and timers (the steps of C4).
PendingStep ==
    /\ (last'.op = "handle_key" /\ last'.result[1].status = "pending") =>
         LET timer == TimerOf(manager'.pending_timeouts, manager.active[1])
         IN  /\ manager'.active = manager.active
             /\ timer # None
             /\ timer[1].generation = manager.timer_counter + 1
             /\ timer[1].remaining_ms = last'.result[1].timeout_ms[1]
             /\ timer[1].remaining_ms > 0
    /\ \A name \in ModeNames :
         Held(modes', name) # <<>> =>
             /\ manager'.active = Some(name)
             /\ TimerOf(manager'.pending_timeouts, name) # None
    /\ last'.op \in {"force_timeout", "process_timeouts"} =>
         \A name \in ModeNames :
             StepsOn(last'.trace, "handle_timeout", name) # <<>> =>
                 /\ TimerOf(manager.pending_timeouts, name) # None
                 /\ name \in DOMAIN last'.result[1]
                 /\ Held(modes', name) = <<>>
                 /\ TimerOf(manager'.pending_timeouts, name) # None =>
                       TruthyInt(last'.result[1][name].timeout_ms)
    /\ last'.op = "process_timeouts" =>
         \A name \in ModeNames :
             (StepsOn(last'.trace, "handle_timeout", name) # <<>>)
                 <=> (/\ TimerOf(manager.pending_timeouts, name) # None
                      /\ TimerOf(manager.pending_timeouts, name)[1].remaining_ms <= 0)
    /\ last'.op = "force_timeout" =>
         \A name \in ModeNames :
             (StepsOn(last'.trace, "handle_timeout", name) # <<>>)
                 <=> TimerOf(manager.pending_timeouts, name) # None

C4_RearmedAfterTimeout ==
    /\ last.op \in {"force_timeout", "process_timeouts"}
    /\ "insert" \in DOMAIN last.result[1]
    /\ last.result[1]["insert"].timeout_ms = Some(500)
    /\ modes["insert"].pending = <<>>
    /\ TimerOf(manager.pending_timeouts, "insert") # None

\* C5: when handle_key returns, the handling mode's pending-token buffer is
\* non-empty only if the resolver reported pending for the accumulated tokens
\* (and then holds exactly these tokens); after a resolver match or miss it is
\* empty, whatever the fallback did.
C5_PendingOnlyWhilePending ==
    [][last'.op = "handle_key" =>
        LET name == manager.active[1]
            call == last'.trace[2]
            held == modes'[name].pending
        IN  /\ call.step = "resolve"
            /\ call.mode = name
            /\ call.count = Len(modes[name].pending) + 1
            /\ call.other \in {Some("match"), Some("pending"), Some("miss")}
            /\ call.other = Some("pending") =>
                  /\ Len(held) = call.count
                  /\ SubSeq(held, 1, call.count - 1) = modes[name].pending
                  /\ Resolve(EmptyDict, registry, name, held, flags).result.status = "pending"
            /\ call.other # Some("pending") => held = <<>>
            /\ held # <<>> => call.other = Some("pending")
      ]_vars

\* Insert mode missed on the second token of a sequence and left the key
\* unhandled; its buffer is empty.
C5_Witness ==
    /\ last.op = "handle_key"
    /\ last.trace[2].step = "resolve"
    /\ last.trace[2].mode = "insert"
    /\ last.trace[2].other = Some("miss")
    /\ last.trace[2].count = 2
    /\ last.result[1].consumed = FALSE
    /\ modes["insert"].pending = <<>>

(***************************************************************************)
(* buffer/document.py, buffer/validation.py, buffer/undo.py,               *)
(* buffer/buffer.py: a str is the tuple of its characters                  *)
(***************************************************************************)

\* The line separator of the texts of the model.
NL == "\n"

\* The place of a slice index in a text of length n: a negative index counts
\* from the end, and every index is brought into 0..n.
SliceIndex(i, n) ==
    IF i < 0 THEN (IF i + n < 0 THEN 0 ELSE i + n)
    ELSE IF i > n THEN n ELSE i

\* text[lo:hi]
Slice(text, lo, hi) ==
    IF SliceIndex(lo, Len(text)) >= SliceIndex(hi, Len(text)) THEN <<>>
    ELSE SubSeq(text, SliceIndex(lo, Len(text)) + 1, SliceIndex(hi, Len(text)))

\* text.split("\n")
RECURSIVE SplitOnNL(_)
SplitOnNL(text) ==
    IF \A i \in DOMAIN text : text[i] # NL THEN <<text>>
    ELSE LET i == CHOOSE k \in DOMAIN text :
                      text[k] = NL /\ \A j \in 1..(k - 1) : text[j] # NL
         IN  <<SubSeq(text, 1, i - 1)>> \o SplitOnNL(SubSeq(text, i + 1, Len(text)))

\* text.splitlines() of a text whose only line boundary is NL: no line for
\* the empty text, and no empty last line after a final NL.
SplitLines(text) ==
    IF text = <<>> THEN <<>>
    ELSE IF text[Len(text)] = NL
    THEN SubSeq(SplitOnNL(text), 1, Len(SplitOnNL(text)) - 1)
    ELSE SplitOnNL(text)

FromTextWithoutFinalLine(text) ==
    [lines |-> IF SplitLines(text) = <<>> THEN << <<>> >> ELSE SplitLines(text),
     version |-> 0, dirty |-> FALSE]

\* BufferDocument.from_text
FromText(text) ==
    [lines |-> IF SplitLines(text) = <<>> THEN << <<>> >>
               ELSE IF text[Len(text)] = NL THEN Append(SplitLines(text), <<>>)
               ELSE SplitLines(text),
     version |-> 0, dirty |-> FALSE]

\* Buffer.from_text
BufferFromText(text) == [DefaultBuffer EXCEPT !.document = FromText(text)]

\* _flatten_lines: "\n".join(lines)
RECURSIVE FlattenLines(_)
FlattenLines(lines) ==
    IF Len(lines) = 0 THEN <<>>
    ELSE IF Len(lines) = 1 THEN lines[1]
    ELSE lines[1] \o <<NL>> \o FlattenLines(Tail(lines))

\* _offset_for_cursor: the lines before the row with their newline, then col.
RECURSIVE OffsetForCursor(_, _)
OffsetForCursor(lines, cursor) ==
    IF cursor[1] = 0 THEN cursor[2]
    ELSE Len(lines[1]) + 1 + OffsetForCursor(Tail(lines), <<cursor[1] - 1, cursor[2]>>)

\* _cursor_from_offset, from the line of index row on, running being the
\* offset of the start of that line.
RECURSIVE CursorScan(_, _, _, _)
CursorScan(lines, offset, row, running) ==
    IF row >= Len(lines) THEN <<Len(lines) - 1, Len(lines[Len(lines)])>>
    ELSE IF offset <= running + Len(lines[row + 1]) THEN <<row, offset - running>>
    ELSE CursorScan(lines, offset, row + 1, running + Len(lines[row + 1]) + 1)

CursorFromOffset(lines, offset) == CursorScan(lines, offset, 0, 0)

EnsureCursorRaisesOnRowOnly(document, cursor) ==
    cursor[1] < 0 \/ cursor[1] >= Len(document.lines)

\* ensure_cursor raises BufferValidationError.
EnsureCursorRaises(document, cursor) ==
    IF cursor[1] < 0 \/ cursor[1] >= Len(document.lines) THEN TRUE
    ELSE cursor[2] < 0 \/ cursor[2] > Len(document.lines[cursor[1] + 1])

\* Python's tuple order on cursors: left <= right.
CursorLE(left, right) ==
    left[1] < right[1] \/ (left[1] = right[1] /\ left[2] <= right[2])

UndoEntry(label, before_text, after_text, cursor_before, cursor_after) ==
    [label |-> label, before_text |-> before_text, after_text |-> after_text,
     cursor_before |-> cursor_before, cursor_after |-> cursor_after]

UndoPushKeepsTail(undo, entry) ==
    [entries |-> Append(undo.entries, entry), index |-> Len(undo.entries)]

\* UndoTimeline.push
UndoPush(undo, entry) ==
    LET kept == IF undo.index < Len(undo.entries) - 1
                THEN SubSeq(undo.entries, 1, undo.index + 1)
                ELSE undo.entries
    IN  [entries |-> Append(kept, entry), index |-> Len(kept)]

\* UndoTimeline.can_undo
UndoCanUndo(undo) == undo.index >= 0

\* UndoTimeline.can_redo
UndoCanRedo(undo) == undo.index < Len(undo.entries) - 1

\* An undo that returns the entry and leaves the index where it was.
UndoUndoKeepsIndex(undo) ==
    IF ~UndoCanUndo(undo) THEN [undo |-> undo, result |-> None]
    ELSE [undo |-> undo, result |-> Some(undo.entries[undo.index + 1])]

\* UndoTimeline.undo: the timeline afterwards and the Optional entry returned.
UndoUndo(undo) ==
    IF ~UndoCanUndo(undo) THEN [undo |-> undo, result |-> None]
    ELSE [undo |-> [undo EXCEPT !.index = @ - 1],
          result |-> Some(undo.entries[undo.index + 1])]

\* UndoTimeline.redo
UndoRedo(undo) ==
    IF ~UndoCanRedo(undo) THEN [undo |-> undo, result |-> None]
    ELSE [undo |-> [undo EXCEPT !.index = @ + 1],
          result |-> Some(undo.entries[undo.index + 2])]

\* BufferDelta
BufferDelta(buf, text, label) ==
    [version |-> buf.document.version, text |-> text, cursor |-> buf.state.cursor,
     selection |-> buf.state.selection, label |-> label]

\* The body of the transaction of replace_range once the document built from
\* new_text and the cursor after the inserted text are known.
CommittedWithStaleAfterText(buf, label, before_text, new_text, start, document, cursor) ==
    [buf EXCEPT !.document = document,
                !.state.cursor = cursor,
                !.state.last_change_tick = document.version,
                !.undo = UndoPush(@, UndoEntry(label, before_text, before_text, start, cursor))]

Committed(buf, label, before_text, new_text, start, document, cursor) ==
    [buf EXCEPT !.document = document,
                !.state.cursor = cursor,
                !.state.last_change_tick = document.version,
                !.undo = UndoPush(@, UndoEntry(label, before_text, new_text, start, cursor))]

Replaced(buf, label, before_text, new_text, start, offset) ==
    Committed(buf, label, before_text, new_text, start, FromText(new_text),
              CursorFromOffset(FromText(new_text).lines, offset))

\* Buffer.replace_range: the buffer afterwards, the exception raised ("none"
\* when it returned) and the Optional BufferDelta returned.
ReplaceRange(buf, start, end, text, label) ==
    IF EnsureCursorRaises(buf.document, start) \/ EnsureCursorRaises(buf.document, end)
    THEN [buffer |-> buf, raised |-> "BufferValidationError", result |-> None]
    ELSE LET before_text == FlattenLines(buf.document.lines)
             start_offset == OffsetForCursor(buf.document.lines, start)
             end_offset == OffsetForCursor(buf.document.lines, end)
             new_text == Slice(before_text, 0, start_offset) \o text
                            \o Slice(before_text, end_offset, Len(before_text))
             after == Replaced(buf, label, before_text, new_text, start,
                               start_offset + Len(text))
         IN  [buffer |-> after, raised |-> "none",
              result |-> Some(BufferDelta(after, new_text, label))]

\* Buffer.insert_text with cursor: Optional[Cursor]; a cursor is a pair, so
\* "cursor or self.state.cursor" takes the state's cursor for None only.
InsertText(buf, text, cursor) ==
    LET position == IF cursor = None THEN buf.state.cursor ELSE cursor[1]
    IN  ReplaceRange(buf, position, position, text, "insert_text")

\* Buffer.delete_range
DeleteRange(buf, start, end) == ReplaceRange(buf, start, end, <<>>, "delete_range")

\* Buffer.get_text_range: the exception raised and the text returned.
GetTextRangeInclusive(buf, start, end) ==
    IF EnsureCursorRaises(buf.document, start) \/ EnsureCursorRaises(buf.document, end)
    THEN [raised |-> "BufferValidationError", text |-> <<>>]
    ELSE LET first == IF CursorLE(start, end) THEN start ELSE end
             second == IF CursorLE(start, end) THEN end ELSE start
         IN  [raised |-> "none",
              text |-> Slice(FlattenLines(buf.document.lines),
                             OffsetForCursor(buf.document.lines, first),
                             OffsetForCursor(buf.document.lines, second) + 1)]

GetTextRange(buf, start, end) ==
    IF EnsureCursorRaises(buf.document, start) \/ EnsureCursorRaises(buf.document, end)
    THEN [raised |-> "BufferValidationError", text |-> <<>>]
    ELSE LET first == IF CursorLE(start, end) THEN start ELSE end
             second == IF CursorLE(start, end) THEN end ELSE start
         IN  [raised |-> "none",
              text |-> Slice(FlattenLines(buf.document.lines),
                             OffsetForCursor(buf.document.lines, first),
                             OffsetForCursor(buf.document.lines, second))]

(***************************************************************************)
(* SpecBuffer: a host editing a Buffer through replace_range, insert_text  *)
(* and delete_range                                                        *)
(***************************************************************************)

\* Cap on the number of edits of one behaviour (the undo timeline grows with
\* every edit); a call that raises is always possible.
MaxEdits == 1

\* The texts of Buffer.from_text: empty, one line, two lines, a final newline,
\* empty lines only.
BufferTexts == {<<>>, <<"a", "b">>, <<"a", NL, "b">>, <<"a", NL>>, <<NL, NL>>}

\* The texts a host inserts.
InsertedTexts == {<<"c">>, <<NL>>, <<"c", NL>>}

\* The cursors a host passes: positions of the documents of the model and
\* positions outside them.
BufferCursors == {<<0, -1>>, <<0, 0>>, <<0, 1>>, <<1, 0>>, <<1, 1>>, <<2, 0>>}

\* The ranges a host deletes.
DeletedRanges ==
    {<<<<0, 0>>, <<0, 1>>>>, <<<<0, 1>>, <<1, 0>>>>, <<<<1, 0>>, <<0, 0>>>>,
     <<<<0, 0>>, <<2, 0>>>>}

\* A Buffer call, recorded with the exception it raised and what it returned.
BufferCall(op, out) ==
    /\ Len(out.buffer.undo.entries) <= MaxEdits
    /\ buffer' = out.buffer
    /\ last' = Call(op, NoArgs, out.raised, out.result)
    /\ UNCHANGED <<registry, cache, manager, modes, flags, visual_state>>

ReplaceRangeCall(start, end, text) ==
    /\ BufferCall("replace_range", ReplaceRange(buffer, start, end, text, "edit"))

InsertTextCall(text, cursor) ==
    /\ BufferCall("insert_text", InsertText(buffer, text, cursor))

DeleteRangeCall(start, end) ==
    /\ BufferCall("delete_range", DeleteRange(buffer, start, end))

InitBuffer ==
    /\ registry = EmptyRegistry
    /\ cache = EmptyDict
    /\ last = Call("init", NoArgs, "none", None)
    /\ ManagerConstructed
    /\ buffer \in {BufferFromText(text) : text \in BufferTexts}
    /\ visual_state = None

NextBuffer ==
    \/ \E start, end \in BufferCursors : ReplaceRangeCall(start, end, <<"c", NL>>)
    \/ \E text \in InsertedTexts, cursor \in {None, Some(<<0, 1>>), Some(<<0, -1>>)} :
          InsertTextCall(text, cursor)
    \/ \E range \in DeletedRanges : DeleteRangeCall(range[1], range[2])

SpecBuffer == InitBuffer /\ [][NextBuffer]_vars

(***************************************************************************)
(* Properties of the buffer (SpecBuffer)                                   *)
(***************************************************************************)

EditOps == {"replace_range", "insert_text", "delete_range"}

\* C14: each successful replace_range, insert_text and delete_range leaves a
\* document whose version is the version before plus exactly 1, so n edits
\* of a buffer that started at version 0 leave version n.
C14_VersionCountsEdits ==
    /\ [][(last'.op \in EditOps /\ last'.raised = "none")
            => buffer'.document.version = buffer.document.version + 1]_vars
    /\ [](buffer.document.version = Len(buffer.undo.entries))

\* The cursors ensure_cursor accepts: every column of every line, the end of
\* the line included.
Positions(document) ==
    UNION {{<<row - 1, col>> : col \in 0..Len(document.lines[row])} :
              row \in DOMAIN document.lines}

\* Cursors outside the document: a row before the first or after the last
\* line, a column before the first or after the end of a line.
Outside(document) ==
    {<<-1, 0>>, <<Len(document.lines), 0>>}
        \cup UNION {{<<row - 1, -1>>, <<row - 1, Len(document.lines[row]) + 1>>} :
                       row \in DOMAIN document.lines}

\* The end of the last line.
LastPosition(document) ==
    <<Len(document.lines) - 1, Len(document.lines[Len(document.lines)])>>

\* The texts of the round trip: empty, plain, a newline last, a newline first.
RoundTripTexts == {<<>>, <<"c">>, <<"c", NL>>, <<NL, "c">>}

\* What C15 says of replace_range(start, end, text) called on buf and giving
\* out: the cursor c afterwards is Len(text) characters after start,
\* get_text_range(start, c) is text, and the text is the old one with the
\* characters from start to end replaced by text.
RoundTrip(buf, start, end, text, out) ==
    LET after == out.buffer
        c == after.state.cursor
    IN  /\ out.raised = "none"
        /\ ~EnsureCursorRaises(after.document, start)
        /\ ~EnsureCursorRaises(after.document, c)
        /\ OffsetForCursor(after.document.lines, c)
              = OffsetForCursor(after.document.lines, start) + Len(text)
        /\ GetTextRange(after, start, c) = [raised |-> "none", text |-> text]
        /\ FlattenLines(after.document.lines)
              = GetTextRange(buf, <<0, 0>>, start).text \o text
                  \o GetTextRange(buf, end, LastPosition(buf.document)).text

\* C15: for valid cursors start <= end and a text of ordinary characters and
\* newlines, after replace_range(start, end, text) the cursor c lies
\* Len(text) characters after start, get_text_range(start, c) returns text,
\* and the buffer text is the old text with the range from start to end
\* replaced by text.
C15_ReplaceRoundTrip ==
    \A start, end \in Positions(buffer.document), text \in RoundTripTexts :
        CursorLE(start, end) =>
            RoundTrip(buffer, start, end, text,
                      ReplaceRange(buffer, start, end, text, "edit"))

\* A replace_range that returned has put a text ending in a newline into a
\* document of several lines, and the cursor stands on a later line.
C15_Witness ==
    /\ last.op = "replace_range"
    /\ last.raised = "none"
    /\ Len(buffer.document.lines) >= 3
    /\ buffer.state.cursor[1] >= 1
    /\ buffer.undo.entries # <<>>

\* A call that raised the bounds error and changed nothing.
Rejected(buf, out) ==
    /\ out.raised = "BufferValidationError"
    /\ out.buffer = buf
    /\ out.result = None

\* C16: replace_range, insert_text and delete_range called with a start or
\* end cursor outside the document raise the bounds error and leave the
\* buffer (document text and version, cursor, selection, last_change_tick,
\* registers, undo timeline) as it was.
C16_BoundsErrorChangesNothing ==
    \A bad \in Outside(buffer.document) :
        /\ \A other \in Positions(buffer.document) \cup Outside(buffer.document) :
              /\ Rejected(buffer, ReplaceRange(buffer, bad, other, <<"c">>, "edit"))
              /\ Rejected(buffer, ReplaceRange(buffer, other, bad, <<"c">>, "edit"))
              /\ Rejected(buffer, DeleteRange(buffer, bad, other))
              /\ Rejected(buffer, DeleteRange(buffer, other, bad))
        /\ \A text \in InsertedTexts : Rejected(buffer, InsertText(buffer, text, Some(bad)))

\* An edited buffer (one undo entry, a cursor away from the origin) has just
\* rejected a delete_range.
C16_Witness ==
    /\ last.op = "delete_range"
    /\ last.raised = "BufferValidationError"
    /\ Len(buffer.undo.entries) = 1
    /\ buffer.state.cursor # <<0, 0>>

(***************************************************************************)
(* The undo timeline alone (buffer/undo.py): push, undo and redo called    *)
(* directly on the timeline of a buffer.                                   *)
(***************************************************************************)

\* Cap on the length of the timeline.
MaxEntries == 3

\* The entries pushed: three edits told apart by their label.
UndoEntries ==
    {UndoEntry(label, <<>>, <<"c">>, <<0, 0>>, <<0, 1>>) : label \in {"e1", "e2", "e3"}}

\* A call on the timeline; the record of the call keeps what can_redo()
\* answered just before it.
TimelineCall(op, undo, result) ==
    /\ Len(undo.entries) <= MaxEntries
    /\ buffer' = [buffer EXCEPT !.undo = undo]
    /\ last' = Call(op, [can_redo |-> UndoCanRedo(buffer.undo)], "none", result)
    /\ UNCHANGED <<registry, cache, manager, modes, flags, visual_state>>

PushCall(entry) ==
    /\ TimelineCall("push", UndoPush(buffer.undo, entry), None)

UndoCall ==
    /\ TimelineCall("undo", UndoUndo(buffer.undo).undo, UndoUndo(buffer.undo).result)

RedoCall ==
    /\ TimelineCall("redo", UndoRedo(buffer.undo).undo, UndoRedo(buffer.undo).result)

InitUndo ==
    /\ registry = EmptyRegistry
    /\ cache = EmptyDict
    /\ last = Call("init", NoArgs, "none", None)
    /\ ManagerConstructed
    /\ buffer = DefaultBuffer
    /\ visual_state = None

NextUndo ==
    \/ \E entry \in UndoEntries : PushCall(entry)
    \/ UndoCall
    \/ RedoCall

SpecUndo == InitUndo /\ [][NextUndo]_vars

(***************************************************************************)
(* Properties of the undo timeline (SpecUndo)                              *)
(***************************************************************************)

RECURSIVE UndoAll(_)
\* What undo() returns when it is called until it returns None.
UndoAll(undo) ==
    IF UndoUndo(undo).result = None THEN <<>>
    ELSE <<UndoUndo(undo).result[1]>> \o UndoAll(UndoUndo(undo).undo)

RECURSIVE Reversed(_)
Reversed(seq) ==
    IF seq = <<>> THEN <<>> ELSE Append(Reversed(Tail(seq)), Head(seq))

\* C17: push(e) on a timeline that undo() calls have left with redoable
\* entries discards them: right afterwards redo() returns None, undo()
\* returns e, and further undo() calls return exactly the entries that were
\* at or below the index before the push, latest first.
C17_PushDiscardsRedoable ==
    \A entry \in UndoEntries :
        UndoCanRedo(buffer.undo) =>
            /\ UndoRedo(UndoPush(buffer.undo, entry)).result = None
            /\ UndoAll(UndoPush(buffer.undo, entry))
                  = <<entry>> \o Reversed(SubSeq(buffer.undo.entries, 1, buffer.undo.index + 1))

\* A push has just replaced redoable entries: the timeline holds an older
\* entry and the new one.
C17_Witness ==
    /\ last.op = "push"
    /\ last.args.can_redo
    /\ Len(buffer.undo.entries) = 2
    /\ buffer.undo.index = 1
    /\ buffer.undo.entries[1] # buffer.undo.entries[2]

(***************************************************************************)
(* The register bank (buffer/registers.py)                                 *)
(***************************************************************************)

RegisterValue(text, type) == [text |-> text, type |-> type]

\* RegisterBank.get
RegisterGet(registers, name) ==
    IF name \in DOMAIN registers THEN registers[name]
    ELSE RegisterValue(<<>>, "character")

\* A set that stores the value under the name only.
RegisterSetNamedOnly(registers, name, value) ==
    DictPut(registers, name, value)

\* RegisterBank.set
RegisterSet(registers, name, value) ==
    LET stored == DictPut(registers, name, value)
    IN  IF name # Unnamed THEN DictPut(stored, Unnamed, value) ELSE stored

\* RegisterBank.append
RegisterAppend(registers, name, text) ==
    RegisterSet(registers, name,
                RegisterValue(RegisterGet(registers, name).text \o text,
                              RegisterGet(registers, name).type))

\* RegisterBank.yank_to
YankTo(registers, name, text, register_type) ==
    RegisterSet(registers, name, RegisterValue(text, register_type))

\* Cap on the length of a register's text (append grows it).
MaxRegisterLen == 2

RegisterNames == {Unnamed, "a", "b"}

RegisterTexts == {<<"x">>, <<"y">>}

RegisterTypes == {"character", "line"}

RegisterCall(op, registers) ==
    /\ \A name \in DOMAIN registers : Len(registers[name].text) <= MaxRegisterLen
    /\ buffer' = [buffer EXCEPT !.registers = registers]
    /\ last' = Call(op, NoArgs, "none", None)
    /\ UNCHANGED <<registry, cache, manager, modes, flags, visual_state>>

RegisterSetCall(name, value) ==
    /\ RegisterCall("set", RegisterSet(buffer.registers, name, value))

RegisterAppendCall(name, text) ==
    /\ RegisterCall("append", RegisterAppend(buffer.registers, name, text))

YankToCall(name, text, register_type) ==
    /\ RegisterCall("yank_to", YankTo(buffer.registers, name, text, register_type))

NextRegisters ==
    \/ \E name \in RegisterNames, text \in RegisterTexts, type \in RegisterTypes :
          RegisterSetCall(name, RegisterValue(text, type))
    \/ \E name \in RegisterNames, text \in RegisterTexts : RegisterAppendCall(name, text)
    \/ \E name \in RegisterNames, text \in RegisterTexts, type \in RegisterTypes :
          YankToCall(name, text, type)

SpecRegisters == InitUndo /\ [][NextRegisters]_vars

(***************************************************************************)
(* Properties of the register bank (SpecRegisters)                         *)
(***************************************************************************)

\* What C18 says of a call that wrote value to the register name and turned
\* the bank before into the bank after.
WriteReachesUnnamed(before, name, value, after) ==
    /\ RegisterGet(after, Unnamed) = value
    /\ RegisterGet(after, name) = value
    /\ name = Unnamed =>
          /\ DOMAIN after = DOMAIN before
          /\ \A other \in DOMAIN before \ {Unnamed} : after[other] = before[other]

\* C18: after set, yank_to or append, whatever register the call named, the
\* unnamed register holds the value that call wrote; a write that names the
\* unnamed register changes no other register.
C18_UnnamedHoldsLastWrite ==
    \A name \in RegisterNames, text \in RegisterTexts, type \in RegisterTypes :
        /\ WriteReachesUnnamed(buffer.registers, name, RegisterValue(text, type),
               RegisterSet(buffer.registers, name, RegisterValue(text, type)))
        /\ WriteReachesUnnamed(buffer.registers, name, RegisterValue(text, type),
               YankTo(buffer.registers, name, text, type))
        /\ WriteReachesUnnamed(buffer.registers, name,
               RegisterValue(RegisterGet(buffer.registers, name).text \o text,
                             RegisterGet(buffer.registers, name).type),
               RegisterAppend(buffer.registers, name, text))

\* An append has just written a two-character value to a named register and
\* to the unnamed one, while another named register holds something else.
C18_Witness ==
    /\ last.op = "append"
    /\ "a" \in DOMAIN buffer.registers
    /\ "b" \in DOMAIN buffer.registers
    /\ Len(buffer.registers["a"].text) = 2
    /\ buffer.registers[Unnamed] = buffer.registers["a"]
    /\ buffer.registers["b"] # buffer.registers["a"]

(***************************************************************************)
(* actions/visual.py: the Visual-mode actions on a ModeContext. A context  *)
(* is the buffer, extras.get("visual_state") (None when the key is absent, *)
(* else the dict) and the events emitted on the bus during the call.       *)
(***************************************************************************)

VisualContext(buf, state) == [buffer |-> buf, visual_state |-> state, emitted |-> <<>>]

\* bus.emit
EmitVisual(ctx, event, payload) ==
    [ctx EXCEPT !.emitted = Append(@, [event |-> event, payload |-> payload])]

\* What an action hands back: the context afterwards and its ModeResult.
Acted(ctx, result) == [ctx |-> ctx, raised |-> "none", result |-> Some(result)]

\* What a hook of the mode hands back: the context afterwards, no result.
Hooked(ctx) == [ctx |-> ctx, raised |-> "none", result |-> None]

\* _visual_state: the dict is created when absent and gets the cursor as
\* anchor when it has none.
VisualState(ctx) ==
    LET state == IF ctx.visual_state = None THEN EmptyDict ELSE ctx.visual_state[1]
    IN  [ctx EXCEPT !.visual_state =
            Some(IF "anchor" \in DOMAIN state THEN state
                 ELSE DictPut(state, "anchor", ctx.buffer.state.cursor))]

Anchor(ctx) == ctx.visual_state[1]["anchor"]

SetAnchor(ctx, cursor) ==
    [ctx EXCEPT !.visual_state = Some(DictPut(@[1], "anchor", cursor))]

Max(a, b) == IF a >= b THEN a ELSE b

\* _clamp_cursor
ClampCursorRowOnly(buf, row, col) ==
    LET max_row == Max(0, Len(buf.document.lines) - 1)
    IN  <<Max(0, Minimum({row, max_row})), col>>

ClampCursor(buf, row, col) ==
    LET lines == buf.document.lines
        max_row == Max(0, Len(lines) - 1)
        r == Max(0, Minimum({row, max_row}))
    IN  <<r, Max(0, Minimum({col, Len(lines[r + 1])}))>>

\* _apply_selection once the target is clamped and the cursor set.
Selected(ctx, target) ==
    Acted(EmitVisual([ctx EXCEPT !.buffer.state.selection = Some(<<Anchor(ctx), target>>)],
                     "visual.selection", [anchor |-> Anchor(ctx), cursor |-> target]),
          ModeResult(TRUE, None, "visual_select", None, None))

\* _apply_selection
ApplySelection(ctx, target) ==
    Selected(VisualState([ctx EXCEPT !.buffer.state.cursor =
                             ClampCursor(ctx.buffer, target[1], target[2])]),
             ClampCursor(ctx.buffer, target[1], target[2]))

\* document.get_line of a row the document has.
GetLine(buf, row) == buf.document.lines[row + 1]

\* extend_left
ExtendLeft(ctx) ==
    LET row == ctx.buffer.state.cursor[1]
        col == ctx.buffer.state.cursor[2]
    IN  IF col > 0 THEN ApplySelection(ctx, <<row, col - 1>>)
        ELSE IF row = 0 THEN ApplySelection(ctx, <<0, 0>>)
        ELSE ApplySelection(ctx, <<row - 1, Len(GetLine(ctx.buffer, row - 1))>>)

\* extend_right
ExtendRight(ctx) ==
    LET row == ctx.buffer.state.cursor[1]
        col == ctx.buffer.state.cursor[2]
    IN  IF col < Len(GetLine(ctx.buffer, row)) THEN ApplySelection(ctx, <<row, col + 1>>)
        ELSE IF row >= Len(ctx.buffer.document.lines) - 1
        THEN ApplySelection(ctx, <<row, Len(GetLine(ctx.buffer, row))>>)
        ELSE ApplySelection(ctx, <<row + 1, 0>>)

\* extend_up
ExtendUp(ctx) ==
    LET row == ctx.buffer.state.cursor[1]
        col == ctx.buffer.state.cursor[2]
    IN  IF row = 0 THEN ApplySelection(ctx, <<0, col>>)
        ELSE ApplySelection(ctx, <<row - 1, Minimum({col, Len(GetLine(ctx.buffer, row - 1))})>>)

\* extend_down
ExtendDown(ctx) ==
    LET row == ctx.buffer.state.cursor[1]
        col == ctx.buffer.state.cursor[2]
    IN  IF row >= Len(ctx.buffer.document.lines) - 1
        THEN ApplySelection(ctx, <<row, Len(GetLine(ctx.buffer, row))>>)
        ELSE ApplySelection(ctx, <<row + 1, Minimum({col, Len(GetLine(ctx.buffer, row + 1))})>>)

\* A register choice that forgets the active register.
ActiveRegisterIgnored(buf) == Unnamed

\* context.buffer.state.active_register or '"'
ActiveRegisterName(buf) ==
    IF buf.state.active_register # "" THEN buf.state.active_register ELSE Unnamed

NoSelection(ctx) == Acted(ctx, ModeResult(FALSE, None, "no_selection", None, None))

\* yank_selection once get_text_range has answered.
Yanked(ctx, start, end, got) ==
    IF got.raised # "none" THEN [ctx |-> ctx, raised |-> got.raised, result |-> None]
    ELSE Acted(EmitVisual([ctx EXCEPT !.buffer.registers =
                               YankTo(@, ActiveRegisterName(ctx.buffer), got.text, "character")],
                          "visual.yank",
                          [register |-> ActiveRegisterName(ctx.buffer), text |-> got.text,
                           range |-> <<start, end>>]),
               ModeResult(TRUE, None, "visual_yank", Some(ActiveRegisterName(ctx.buffer)), None))

\* yank_selection
YankSelection(ctx) ==
    IF ctx.buffer.state.selection = None THEN NoSelection(ctx)
    ELSE Yanked(ctx, ctx.buffer.state.selection[1][1], ctx.buffer.state.selection[1][2],
                GetTextRange(ctx.buffer, ctx.buffer.state.selection[1][1],
                             ctx.buffer.state.selection[1][2]))

\* swap_anchor once the anchor is known: the cursor becomes the anchor, the
\* old anchor the cursor.
Swapped(ctx, cursor, anchor) ==
    Acted(EmitVisual([SetAnchor(ctx, cursor) EXCEPT
                         !.buffer.state.cursor = anchor,
                         !.buffer.state.selection = Some(<<cursor, anchor>>)],
                     "visual.selection", [anchor |-> cursor, cursor |-> anchor, swap |-> TRUE]),
          ModeResult(TRUE, None, "visual_swap", None, None))

\* A swap_anchor that moves the cursor to the anchor and leaves the anchor.
SwapAnchorKeepsAnchor(ctx) ==
    Swapped(VisualState(ctx), Anchor(VisualState(ctx)), Anchor(VisualState(ctx)))

\* swap_anchor
SwapAnchor(ctx) ==
    Swapped(VisualState(ctx), ctx.buffer.state.cursor, Anchor(VisualState(ctx)))

\* A selection range that keeps the endpoints in the order they were given.
SelectionRangeAsGiven(buf) ==
    IF buf.state.selection = None THEN None ELSE buf.state.selection

\* _selection_range: the endpoints of the selection, the earlier one first.
SelectionRange(buf) ==
    IF buf.state.selection = None THEN None
    ELSE IF CursorLE(buf.state.selection[1][1], buf.state.selection[1][2])
    THEN buf.state.selection
    ELSE Some(<<buf.state.selection[1][2], buf.state.selection[1][1]>>)

\* _delete_selection after replace_range has answered: the selection is
\* cleared, the anchor becomes the cursor, visual.delete is emitted.
Removed(ctx, label, start, end, text, register_name, out) ==
    IF out.raised # "none" THEN [ctx |-> ctx, raised |-> out.raised, text |-> None]
    ELSE [ctx |-> EmitVisual(
                     SetAnchor(VisualState([ctx EXCEPT
                                   !.buffer = [out.buffer EXCEPT !.state.selection = None]]),
                               out.buffer.state.cursor),
                     "visual.delete",
                     [label |-> label, text |-> text, register |-> register_name,
                      range |-> <<start, end>>]),
          raised |-> "none", text |-> Some(text)]

\* _delete_selection after get_text_range has answered: the text goes to the
\* register, then the range is replaced by nothing.
Cut(ctx, label, start, end, got, yanked) ==
    IF got.raised # "none" THEN [ctx |-> ctx, raised |-> got.raised, text |-> None]
    ELSE Removed([ctx EXCEPT !.buffer = yanked], label, start, end, got.text,
                 ActiveRegisterName(ctx.buffer),
                 ReplaceRange(yanked, start, end, <<>>, label))

\* _delete_selection on the ordered range.
CutRange(ctx, label, range, got) ==
    Cut(ctx, label, range[1], range[2], got,
        [ctx.buffer EXCEPT !.registers =
            YankTo(@, ActiveRegisterName(ctx.buffer), got.text, "character")])

\* _delete_selection: the text removed (Optional) and the context afterwards.
DeleteSelectionText(ctx, label) ==
    IF SelectionRange(ctx.buffer) = None THEN [ctx |-> ctx, raised |-> "none", text |-> None]
    ELSE CutRange(ctx, label, SelectionRange(ctx.buffer)[1],
                  GetTextRange(ctx.buffer, SelectionRange(ctx.buffer)[1][1],
                               SelectionRange(ctx.buffer)[1][2]))

\* delete_selection and change_selection after _delete_selection.
Deleted(cut, switch_to, status) ==
    IF cut.raised # "none" THEN [ctx |-> cut.ctx, raised |-> cut.raised, result |-> None]
    ELSE IF cut.text = None THEN NoSelection(cut.ctx)
    ELSE Acted(cut.ctx, ModeResult(TRUE, Some(switch_to), status, cut.text, None))

\* delete_selection
DeleteSelection(ctx) ==
    Deleted(DeleteSelectionText(ctx, "visual_delete"), "normal", "visual_delete")

\* change_selection
ChangeSelection(ctx) ==
    Deleted(DeleteSelectionText(ctx, "visual_change"), "insert", "visual_change")

\* VisualMode.on_enter: the anchor is the cursor, the selection is empty at
\* the anchor.
EnterVisual(ctx) ==
    Hooked([SetAnchor(VisualState(ctx), ctx.buffer.state.cursor) EXCEPT
               !.buffer.state.selection = Some(<<ctx.buffer.state.cursor, ctx.buffer.state.cursor>>)])

\* An on_exit that drops the anchor and leaves the selection.
ExitVisualKeepsSelection(ctx) ==
    Hooked([ctx EXCEPT !.visual_state = IF @ = None THEN None ELSE Some(DictPop(@[1], "anchor"))])

\* VisualMode.on_exit: the anchor is dropped from the dict when there is one,
\* the selection is cleared.
ExitVisual(ctx) ==
    Hooked([ctx EXCEPT !.visual_state = IF @ = None THEN None ELSE Some(DictPop(@[1], "anchor")),
                       !.buffer.state.selection = None])

(***************************************************************************)
(* SpecVisual: the Visual-mode actions and the mode's hooks called on one  *)
(* context, in any order.                                                  *)
(***************************************************************************)

\* The texts of the buffer: two lines.
VisualTexts == {<<"a", NL, "b">>}

\* The active registers: the unnamed one, a named one, none ("").
ActiveRegisters == {Unnamed, "a", ""}

VisualCall(op, out) ==
    /\ Len(out.ctx.buffer.undo.entries) <= MaxEdits
    /\ buffer' = out.ctx.buffer
    /\ visual_state' = out.ctx.visual_state
    /\ last' = Call(op, NoArgs, out.raised, out.result)
    /\ UNCHANGED <<registry, cache, manager, modes, flags>>

Here == VisualContext(buffer, visual_state)

OnEnterCall == /\ VisualCall("on_enter", EnterVisual(Here))

OnExitCall == /\ VisualCall("on_exit", ExitVisual(Here))

ExtendLeftCall == /\ VisualCall("extend_left", ExtendLeft(Here))

ExtendRightCall == /\ VisualCall("extend_right", ExtendRight(Here))

ExtendUpCall == /\ VisualCall("extend_up", ExtendUp(Here))

ExtendDownCall == /\ VisualCall("extend_down", ExtendDown(Here))

SwapAnchorCall == /\ VisualCall("swap_anchor", SwapAnchor(Here))

YankSelectionCall == /\ VisualCall("yank_selection", YankSelection(Here))

DeleteSelectionCall == /\ VisualCall("delete_selection", DeleteSelection(Here))

ChangeSelectionCall == /\ VisualCall("change_selection", ChangeSelection(Here))

InitVisual ==
    /\ registry = EmptyRegistry
    /\ cache = EmptyDict
    /\ last = Call("init", NoArgs, "none", None)
    /\ ManagerConstructed
    /\ buffer \in {[BufferFromText(text) EXCEPT !.state.active_register = name] :
                      text \in VisualTexts, name \in ActiveRegisters}
    /\ visual_state = None

NextVisual ==
    \/ OnEnterCall
    \/ OnExitCall
    \/ ExtendLeftCall
    \/ ExtendRightCall
    \/ ExtendUpCall
    \/ ExtendDownCall
    \/ SwapAnchorCall
    \/ YankSelectionCall
    \/ DeleteSelectionCall
    \/ ChangeSelectionCall

SpecVisual == InitVisual /\ [][NextVisual]_vars

(***************************************************************************)
(* Properties of the Visual-mode actions (SpecVisual)                      *)
(***************************************************************************)

\* The endpoints of the buffer's selection, the earlier one first, and the
\* characters of the buffer's text from the earlier endpoint up to the later.
Earlier(buf) ==
    IF CursorLE(buf.state.selection[1][1], buf.state.selection[1][2])
    THEN buf.state.selection[1][1] ELSE buf.state.selection[1][2]

Later(buf) ==
    IF CursorLE(buf.state.selection[1][1], buf.state.selection[1][2])
    THEN buf.state.selection[1][2] ELSE buf.state.selection[1][1]

SelectedText(buf) ==
    SubSeq(FlattenLines(buf.document.lines),
           OffsetForCursor(buf.document.lines, Earlier(buf)) + 1,
           OffsetForCursor(buf.document.lines, Later(buf)))

\* The text of buf is in the active register (the unnamed one when no
\* register is active) and in the unnamed register of after.
InRegisters(buf, text, after) ==
    /\ RegisterGet(after.registers,
                   IF buf.state.active_register = "" THEN Unnamed
                   ELSE buf.state.active_register) = RegisterValue(text, "character")
    /\ RegisterGet(after.registers, Unnamed) = RegisterValue(text, "character")

EmittedOnce(out, event) ==
    /\ Len(out.ctx.emitted) = 1
    /\ out.ctx.emitted[1].event = event

\* C19: visual yank with a selection stores the selected text in the active
\* and the unnamed register, emits exactly one visual.yank event, requests
\* no mode switch and leaves text, version, cursor, selection and undo
\* timeline as they were; with no selection it changes nothing, emits
\* nothing and returns an unconsumed no_selection result.
C19_YankFrame ==
    LET out == YankSelection(Here)
    IN  /\ out.raised = "none"
        /\ buffer.state.selection # None =>
              /\ InRegisters(buffer, SelectedText(buffer), out.ctx.buffer)
              /\ EmittedOnce(out, "visual.yank")
              /\ out.ctx.emitted[1].payload.text = SelectedText(buffer)
              /\ out.result[1].consumed
              /\ out.result[1].switch_to = None
              /\ [out.ctx.buffer EXCEPT !.registers = buffer.registers] = buffer
        /\ buffer.state.selection = None =>
              /\ out.ctx = Here
              /\ ~out.result[1].consumed
              /\ out.result[1].status = "no_selection"
              /\ out.result[1].switch_to = None

\* A yank has just put a selection that spans the line break, made with the
\* cursor before the anchor, into register a and the unnamed register.
C19_Witness ==
    /\ last.op = "yank_selection"
    /\ last.result # None
    /\ last.result[1].status = "visual_yank"
    /\ buffer.state.active_register = "a"
    /\ buffer.state.selection # None
    /\ ~CursorLE(buffer.state.selection[1][1], buffer.state.selection[1][2])
    /\ "a" \in DOMAIN buffer.registers
    /\ NL \in {buffer.registers["a"].text[i] : i \in DOMAIN buffer.registers["a"].text}

\* What C20 says of delete_selection or change_selection called with a
\* selection and giving out.
CutContract(out, label, switch_to) ==
    /\ out.raised = "none"
    /\ FlattenLines(out.ctx.buffer.document.lines)
          = SubSeq(FlattenLines(buffer.document.lines), 1,
                   OffsetForCursor(buffer.document.lines, Earlier(buffer)))
              \o SubSeq(FlattenLines(buffer.document.lines),
                        OffsetForCursor(buffer.document.lines, Later(buffer)) + 1,
                        Len(FlattenLines(buffer.document.lines)))
    /\ Len(out.ctx.buffer.undo.entries) = Len(buffer.undo.entries) + 1
    /\ SubSeq(out.ctx.buffer.undo.entries, 1, Len(buffer.undo.entries)) = buffer.undo.entries
    /\ out.ctx.buffer.undo.index = Len(buffer.undo.entries)
    /\ out.ctx.buffer.undo.entries[Len(buffer.undo.entries) + 1].label = label
    /\ InRegisters(buffer, SelectedText(buffer), out.ctx.buffer)
    /\ out.ctx.buffer.state.selection = None
    /\ out.ctx.buffer.state.cursor = Earlier(buffer)
    /\ Anchor(out.ctx) = Earlier(buffer)
    /\ EmittedOnce(out, "visual.delete")
    /\ out.result[1].consumed
    /\ out.result[1].switch_to = Some(switch_to)

\* C20: visual delete with a selection, whichever endpoint is the anchor,
\* removes exactly the selected range through one replace_range (one undo
\* entry), stores the removed text in the active and the unnamed register,
\* clears the selection, makes the new cursor (the earlier endpoint) the
\* anchor, emits one visual.delete event and requests Normal; visual change
\* does the same but requests Insert.
C20_DeleteAndChange ==
    buffer.state.selection # None =>
        /\ CutContract(DeleteSelection(Here), "visual_delete", "normal")
        /\ CutContract(ChangeSelection(Here), "visual_change", "insert")

\* A delete has just removed a selection that spanned the line break: one
\* line is left, the removed text is in the unnamed register, the selection
\* is gone and the anchor is the cursor.
C20_Witness ==
    /\ last.op = "delete_selection"
    /\ last.result # None
    /\ last.result[1].switch_to = Some("normal")
    /\ Len(buffer.undo.entries) = 1
    /\ Len(buffer.document.lines) = 1
    /\ NL \in {buffer.registers[Unnamed].text[i] : i \in DOMAIN buffer.registers[Unnamed].text}
    /\ buffer.state.selection = None
    /\ visual_state = Some(DictPut(EmptyDict, "anchor", buffer.state.cursor))

(***************************************************************************)
(* Undo and redo on the timeline (SpecUndo)                                *)
(***************************************************************************)

\* The positions (from 0) of the entries at or below the index, and above it.
AtOrBelow(undo) == {i \in 0..(Len(undo.entries) - 1) : i <= undo.index}

Above(undo) == {i \in 0..(Len(undo.entries) - 1) : i > undo.index}

RECURSIVE PushAll(_, _)
\* push called on each entry of a sequence in turn.
PushAll(undo, entries) ==
    IF entries = <<>> THEN undo
    ELSE PushAll(UndoPush(undo, Head(entries)), Tail(entries))

RECURSIVE UndoTimes(_, _)
\* What n calls of undo() return, in the order of the calls.
UndoTimes(undo, n) ==
    IF n = 0 THEN <<>>
    ELSE <<UndoUndo(undo).result>> \o UndoTimes(UndoUndo(undo).undo, n - 1)

\* The sequences of one or two entries pushed in a row.
PushedRuns ==
    {<<e>> : e \in UndoEntries} \cup {<<e, f>> : e, f \in UndoEntries}

\* undo() and redo() on the timeline undo, as C27 states them.
UndoRedoContract(undo) ==
    /\ (UndoUndo(undo).result = None) <=> (AtOrBelow(undo) = {})
    /\ (UndoRedo(undo).result = None) <=> (Above(undo) = {})
    /\ AtOrBelow(undo) = {} => UndoUndo(undo).undo = undo
    /\ Above(undo) = {} => UndoRedo(undo).undo = undo
    /\ AtOrBelow(undo) # {} =>
          /\ UndoUndo(undo).undo = [undo EXCEPT !.index = undo.index - 1]
          /\ UndoUndo(undo).result = Some(undo.entries[undo.index + 1])
          /\ UndoRedo(UndoUndo(undo).undo) = [undo |-> undo, result |-> UndoUndo(undo).result]
    /\ Above(undo) # {} =>
          /\ UndoRedo(undo).undo = [undo EXCEPT !.index = undo.index + 1]
          /\ UndoRedo(undo).result = Some(undo.entries[undo.index + 2])

\* C27: undo() returns None exactly when no entry is at or below the index,
\* redo() exactly when none is above it; otherwise each moves the index by
\* one and returns the entry crossed, so undo() then redo() returns the same
\* entry and restores the index; n pushes followed by n undo() calls return
\* the entries latest first; the index stays within [-1, number of entries - 1].
C27_UndoRedoWalkTheTimeline ==
    /\ UndoRedoContract(buffer.undo)
    /\ buffer.undo.index \in -1..(Len(buffer.undo.entries) - 1)
    /\ \A run \in PushedRuns :
          UndoTimes(PushAll(buffer.undo, run), Len(run))
              = [i \in 1..Len(run) |-> Some(run[Len(run) + 1 - i])]

\* A redo has just returned the entry an undo had crossed, in the middle of a
\* timeline of three entries: one entry is below the index, one above it.
C27_Witness ==
    /\ last.op = "redo"
    /\ last.result # None
    /\ Len(buffer.undo.entries) = 3
    /\ buffer.undo.index = 1
    /\ last.result = Some(buffer.undo.entries[2])

(***************************************************************************)
(* The undo entry of an edit (SpecBuffer)                                  *)
(***************************************************************************)

\* The entry the timeline holds at its index.
CurrentEntry(undo) == undo.entries[undo.index + 1]

\* C28: each successful replace_range (insert_text and delete_range with it)
\* pushes exactly one UndoEntry whose before_text and after_text are the
\* buffer's full text before and after the edit and whose cursor_before and
\* cursor_after are the buffer's cursor before and after the edit.
C28_EntryCapturesTextAndCursors ==
    [][(last'.op \in EditOps /\ last'.raised = "none") =>
          /\ Len(buffer'.undo.entries) = Len(buffer.undo.entries) + 1
          /\ buffer'.undo.index = Len(buffer.undo.entries)
          /\ CurrentEntry(buffer'.undo).before_text = FlattenLines(buffer.document.lines)
          /\ CurrentEntry(buffer'.undo).after_text = FlattenLines(buffer'.document.lines)
          /\ CurrentEntry(buffer'.undo).cursor_before = buffer.state.cursor
          /\ CurrentEntry(buffer'.undo).cursor_after = buffer'.state.cursor]_vars

(***************************************************************************)
(* The command line: CommandMode._handle_text_input (modes/command_mode.py)*)
(* and submit_command_line (actions/command.py), on texts kept as tuples   *)
(* of characters. A command context holds the mode's _typed list (the text *)
(* of each key), extras.get("command_state") (None when the key is absent, *)
(* else the dict), the buffer and the events emitted in the call.          *)
(***************************************************************************)

CommandContext(typed, state, buf) ==
    [typed |-> typed, command_state |-> state, buffer |-> buf, emitted |-> <<>>]

EmitCommand(ctx, event, payload) ==
    [ctx EXCEPT !.emitted = Append(@, [event |-> event, payload |-> payload])]

\* extras.setdefault("command_state", {})
StateDict(ctx) == IF ctx.command_state = None THEN EmptyDict ELSE ctx.command_state[1]

RECURSIVE JoinTyped(_)
\* CommandMode.current_command: "".join(self._typed)
JoinTyped(typed) ==
    IF typed = <<>> THEN <<>> ELSE Head(typed) \o JoinTyped(Tail(typed))

\* CommandMode._sync_command_state: state["text"] = self.current_command
SyncText(ctx) ==
    [ctx EXCEPT !.command_state = Some(DictPut(StateDict(ctx), "text", JoinTyped(ctx.typed)))]

\* CommandMode._handle_text_input
CommandTextInput(ctx, key) ==
    IF key.key \in EscapeKeys
    THEN [ctx |-> SyncText([ctx EXCEPT !.typed = <<>>]),
          result |-> ModeResult(TRUE, Some("normal"), "ok", Some("command_cancel"), None)]
    ELSE IF key.key \in {"ENTER", "RETURN"}
    THEN [ctx |-> SyncText([EmitCommand(ctx, "command.submit", JoinTyped(ctx.typed))
                               EXCEPT !.typed = <<>>]),
          result |-> ModeResult(TRUE, Some("normal"), "command_submit",
                                Some(JoinTyped(ctx.typed)), None)]
    ELSE IF key.key = "BACKSPACE" /\ ctx.typed # <<>>
    THEN [ctx |-> SyncText([ctx EXCEPT !.typed = SubSeq(@, 1, Len(@) - 1)]),
          result |-> ModeResult(TRUE, None, "editing", None, None)]
    ELSE IF TruthyStr(key.text)
    THEN [ctx |-> SyncText([ctx EXCEPT !.typed = Append(@, key.text[1])]),
          result |-> ModeResult(TRUE, None, "editing", None, None)]
    ELSE [ctx |-> ctx, result |-> ModeResult(FALSE, None, "miss", Some("unhandled"), None)]

\* _command_state of the actions: the dict with "text" and "history"
\* defaulted to "" and [].
CommandState(ctx) ==
    LET state == StateDict(ctx)
        texted == IF "text" \in DOMAIN state THEN state ELSE DictPut(state, "text", <<>>)
    IN  [ctx EXCEPT !.command_state =
            Some(IF "history" \in DOMAIN texted THEN texted
                 ELSE DictPut(texted, "history", <<>>))]

Whitespace == {" "}

RECURSIVE LStrip(_)
LStrip(text) ==
    IF text # <<>> /\ Head(text) \in Whitespace THEN LStrip(Tail(text)) ELSE text

RECURSIVE RStrip(_)
RStrip(text) ==
    IF text # <<>> /\ text[Len(text)] \in Whitespace
    THEN RStrip(SubSeq(text, 1, Len(text) - 1)) ELSE text

\* str.strip()
Strip(text) == RStrip(LStrip(text))

RECURSIVE SplitWords(_, _)
\* str.split(): the words between runs of whitespace; word is the word begun.
SplitWords(text, word) ==
    IF text = <<>> THEN (IF word = <<>> THEN <<>> ELSE <<word>>)
    ELSE IF Head(text) \in Whitespace
    THEN (IF word = <<>> THEN <<>> ELSE <<word>>) \o SplitWords(Tail(text), <<>>)
    ELSE SplitWords(Tail(text), Append(word, Head(text)))

Split(text) == SplitWords(text, <<>>)

\* _emit_write, _emit_quit, _emit_edit
EmitWrite(ctx, args, force) ==
    EmitCommand(ctx, "command.write",
                [force |-> force, args |-> args,
                 snapshot |-> FlattenLines(ctx.buffer.document.lines)])

EmitQuit(ctx, force) == EmitCommand(ctx, "command.quit", [force |-> force])

EmitEdit(ctx, args, force) ==
    EmitCommand(ctx, "command.edit",
                [force |-> force, args |-> args,
                 snapshot |-> FlattenLines(ctx.buffer.document.lines)])

CommandResult(status, message) == ModeResult(TRUE, Some("normal"), status, Some(message), None)

RECURSIVE JoinWords(_)
\* " ".join(args)
JoinWords(args) ==
    IF args = <<>> THEN <<>>
    ELSE IF Len(args) = 1 THEN args[1]
    ELSE args[1] \o <<" ">> \o JoinWords(Tail(args))

\* An unknown command that is answered without an event.
UnknownCommandSilent(ctx, command) ==
    [ctx |-> ctx, result |-> CommandResult("command_error", command)]

\* _unknown_command
UnknownCommand(ctx, command) ==
    [ctx |-> EmitCommand(ctx, "command.error", command),
     result |-> CommandResult("command_error", command)]

\* _handle_echo
HandleEcho(ctx, args) ==
    [ctx |-> EmitCommand(ctx, "command.echo", JoinWords(args)),
     result |-> CommandResult("command_echo", JoinWords(args))]

\* _handle_write
HandleWrite(ctx, args, force) ==
    [ctx |-> EmitWrite(ctx, args, force),
     result |-> IF force THEN CommandResult("command_write_force", "write!")
                ELSE CommandResult("command_write", "write")]

\* _handle_quit
HandleQuit(ctx, args, force) ==
    [ctx |-> EmitQuit(ctx, force),
     result |-> IF force THEN CommandResult("command_quit_force", "quit!")
                ELSE CommandResult("command_quit", "quit")]

\* A wq that asks to quit before it asks to write.
HandleWqQuitsFirst(ctx, args, force) ==
    [ctx |-> EmitWrite(EmitQuit(ctx, force), args, force),
     result |-> IF force THEN CommandResult("command_wq_force", "wq!")
                ELSE CommandResult("command_wq", "wq")]

\* _handle_wq
HandleWq(ctx, args, force) ==
    [ctx |-> EmitQuit(EmitWrite(ctx, args, force), force),
     result |-> IF force THEN CommandResult("command_wq_force", "wq!")
                ELSE CommandResult("command_wq", "wq")]

\* _handle_x
HandleX(ctx, args, force) ==
    [ctx |-> EmitQuit(EmitWrite(ctx, args, force), force),
     result |-> IF force THEN CommandResult("command_x_force", "x!")
                ELSE CommandResult("command_x", "x")]

\* _handle_edit
HandleEdit(ctx, args, force) ==
    [ctx |-> EmitEdit(ctx, args, force),
     result |-> IF force THEN CommandResult("command_edit_force", "edit!")
                ELSE CommandResult("command_edit", "edit")]

\* The words of _COMMAND_HANDLERS by handler, without the "!" of the forced
\* variants.
WriteWords == {<<"w", "r", "i", "t", "e">>, <<"w">>}
QuitWords == {<<"q", "u", "i", "t">>, <<"q">>}
WqWords == {<<"w", "q">>}
XWords == {<<"x">>, <<"e", "x", "i", "t">>}
EditWords == {<<"e", "d", "i", "t">>, <<"e">>}
EchoWords == {<<"e", "c", "h", "o">>}

Forced(words) == {Append(word, "!") : word \in words}

\* _COMMAND_HANDLERS.get(command) applied to (context, args): None when the
\* table has no such word.
CommandHandlers(ctx, command, args) ==
    CASE command \in EchoWords -> Some(HandleEcho(ctx, args))
      [] command \in WriteWords -> Some(HandleWrite(ctx, args, FALSE))
      [] command \in Forced(WriteWords) -> Some(HandleWrite(ctx, args, TRUE))
      [] command \in QuitWords -> Some(HandleQuit(ctx, args, FALSE))
      [] command \in Forced(QuitWords) -> Some(HandleQuit(ctx, args, TRUE))
      [] command \in WqWords -> Some(HandleWq(ctx, args, FALSE))
      [] command \in Forced(WqWords) -> Some(HandleWq(ctx, args, TRUE))
      [] command \in XWords -> Some(HandleX(ctx, args, FALSE))
      [] command \in Forced(XWords) -> Some(HandleX(ctx, args, TRUE))
      [] command \in EditWords -> Some(HandleEdit(ctx, args, FALSE))
      [] command \in Forced(EditWords) -> Some(HandleEdit(ctx, args, TRUE))
      [] OTHER -> None

\* submit_command_line after the text is stripped, submitted, recorded in
\* the history and cleared.
Dispatched(ctx, text) ==
    IF text = <<>>
    THEN [ctx |-> ctx, result |-> ModeResult(TRUE, Some("normal"), "command_empty", None, None)]
    ELSE IF CommandHandlers(ctx, Head(Split(text)), Tail(Split(text))) = None
    THEN UnknownCommand(ctx, Head(Split(text)))
    ELSE CommandHandlers(ctx, Head(Split(text)), Tail(Split(text)))[1]

Submitted(ctx, text) ==
    Dispatched([EmitCommand(ctx, "command.submit", text) EXCEPT
                   !.command_state = Some(DictPut(DictPut(@[1], "history",
                                                          Append(@[1]["history"], text)),
                                          "text", <<>>))],
               text)

\* submit_command_line
SubmitCommandLine(ctx) ==
    Submitted(CommandState(ctx), Strip(CommandState(ctx).command_state[1]["text"]))

(***************************************************************************)
(* SpecCommand: one visit to Command mode under the default keymaps, from  *)
(* on_enter until a key's result asks for another mode. The command part   *)
(* of modes holds _typed and extras["command_state"]; manager.active is    *)
(* the active mode.                                                        *)
(***************************************************************************)

\* Cap on the number of key texts in _typed.
MaxCommandLen == 3

\* The keys of the host: characters, a whole word sent as one text, and keys
\* without text.
CommandKeys ==
    {KeyInput(c, <<>>, Some(<<c>>)) : c \in {"w", "q", "x", "!", " ", "z"}}
        \cup {KeyInput("exit", <<>>, Some(<<"e", "x", "i", "t">>))}
        \cup {KeyInput(k, <<>>, None) : k \in {"BACKSPACE", "ENTER", "RETURN", "ESC", "<Esc>", "F1"}}

\* An on_exit that clears _typed and emits nothing.
CommandExitSilent(ctx) == SyncText([ctx EXCEPT !.typed = <<>>])

\* CommandMode.on_exit on the context: command.end carries the text, _typed
\* is cleared and the text synced.
CommandExit(ctx) ==
    SyncText([EmitCommand(ctx, "command.end", JoinTyped(ctx.typed)) EXCEPT !.typed = <<>>])

\* CommandMode.handle_key under DEFAULT_BINDINGS: ESC is bound to
\* exit_to_normal_mode, ENTER and RETURN to submit_command_line; every other
\* key misses and goes to _handle_text_input.
CommandKey(ctx, key) ==
    IF key.key = "ESC"
    THEN [ctx |-> ctx, result |-> ModeResult(TRUE, Some("normal"), "ok", Some("exit_insert"), None)]
    ELSE IF key.key \in {"ENTER", "RETURN"} THEN SubmitCommandLine(ctx)
    ELSE CommandTextInput(ctx, key)

CommandHere == CommandContext(modes.command.typed, modes.command.command_state, buffer)

\* ModeManager.handle_key while Command mode is active: the mode handles the
\* key, then the manager switches when the result names another mode.
CommandKeyHandled(key, out, left) ==
    /\ manager.active = Some("command")
    /\ Len(out.ctx.typed) <= MaxCommandLen
    /\ modes' = [command |-> [typed |-> left.typed, command_state |-> left.command_state]]
    /\ manager' = [manager EXCEPT !.active =
                      IF out.result.switch_to # None THEN out.result.switch_to ELSE @]
    /\ flags' = IF out.result.switch_to # None
                THEN UpdateFlag(flags, "command_active", FALSE) ELSE flags
    /\ last' = [op |-> "handle_key", args |-> [key |-> key], raised |-> "none",
                result |-> Some(out.result), emitted |-> left.emitted]
    /\ UNCHANGED <<registry, cache, buffer, visual_state>>

CommandKeyCall(key) ==
    /\ CommandKeyHandled(key, CommandKey(CommandHere, key),
                         IF CommandKey(CommandHere, key).result.switch_to # None
                         THEN CommandExit(CommandKey(CommandHere, key).ctx)
                         ELSE CommandKey(CommandHere, key).ctx)

\* Command mode has just been entered: on_enter cleared _typed, raised the
\* flag and synced the text.
InitCommand ==
    /\ registry = EmptyRegistry
    /\ cache = EmptyDict
    /\ manager = [active |-> Some("command"), pending_timeouts |-> <<>>, timer_counter |-> 0]
    /\ modes = [command |-> [typed |-> <<>>,
                             command_state |-> Some(DictPut(EmptyDict, "text", <<>>))]]
    /\ flags = UpdateFlag(EmptyDict, "command_active", TRUE)
    /\ buffer \in {BufferFromText(text) : text \in {<<>>, <<"a", NL, "b">>}}
    /\ visual_state = None
    /\ last = [op |-> "switch_mode", args |-> NoArgs, raised |-> "none", result |-> None,
               emitted |-> <<[event |-> "command.start", payload |-> None]>>]

TextKeyCall(key) == /\ CommandKeyCall(key)

BackspaceKeyCall == /\ CommandKeyCall(KeyInput("BACKSPACE", <<>>, None))

SubmitKeyCall(key) == /\ CommandKeyCall(key)

EscapeKeyCall(key) == /\ CommandKeyCall(key)

UnhandledKeyCall == /\ CommandKeyCall(KeyInput("F1", <<>>, None))

NextCommand ==
    \/ \E key \in {k \in CommandKeys : k.text # None} : TextKeyCall(key)
    \/ BackspaceKeyCall
    \/ \E key \in {k \in CommandKeys : k.key \in {"ENTER", "RETURN"}} : SubmitKeyCall(key)
    \/ \E key \in {k \in CommandKeys : k.key \in EscapeKeys} : EscapeKeyCall(key)
    \/ UnhandledKeyCall

SpecCommand == InitCommand /\ [][NextCommand]_vars

(***************************************************************************)
(* Properties of the command line (SpecCommand)                            *)
(***************************************************************************)

\* The names of the events of a sequence of events.
EventNames(emitted) == [i \in DOMAIN emitted |-> emitted[i].event]

\* The text a submission would see, stripped, and its first word (the empty
\* word when there is none).
SubmittedText == Strip(CommandState(CommandHere).command_state[1]["text"])

SubmittedWord == IF Split(SubmittedText) = <<>> THEN <<>> ELSE Head(Split(SubmittedText))

\* The submission emitted command.submit and then the events named, each
\* with the force given, and asked for Normal mode.
SubmitEmits(out, names, force) ==
    /\ EventNames(out.ctx.emitted) = <<"command.submit">> \o names
    /\ out.ctx.emitted[1].payload = SubmittedText
    /\ \A i \in 2..Len(out.ctx.emitted) : out.ctx.emitted[i].payload.force = force
    /\ out.result.consumed
    /\ out.result.switch_to = Some("normal")

\* C22: submitting wq, x or exit emits command.submit, then one
\* command.write with force false, then one command.quit with force false,
\* and asks for Normal; wq!, x! and exit! do the same with force true on
\* both; a write-only or quit-only command emits only its own event after
\* command.submit.
C22_WriteThenQuit ==
    LET out == SubmitCommandLine(CommandHere)
    IN  /\ SubmittedWord \in {<<"w", "q">>, <<"x">>, <<"e", "x", "i", "t">>} =>
              SubmitEmits(out, <<"command.write", "command.quit">>, FALSE)
        /\ SubmittedWord \in {<<"w", "q", "!">>, <<"x", "!">>, <<"e", "x", "i", "t", "!">>} =>
              SubmitEmits(out, <<"command.write", "command.quit">>, TRUE)
        /\ SubmittedWord = <<"w">> => SubmitEmits(out, <<"command.write">>, FALSE)
        /\ SubmittedWord = <<"w", "!">> => SubmitEmits(out, <<"command.write">>, TRUE)
        /\ SubmittedWord = <<"q">> => SubmitEmits(out, <<"command.quit">>, FALSE)
        /\ SubmittedWord = <<"q", "!">> => SubmitEmits(out, <<"command.quit">>, TRUE)

\* ENTER has just submitted exit! typed after a blank: submit, a forced
\* write, a forced quit, then the mode's command.end, and Normal is active.
C22_Witness ==
    /\ last.op = "handle_key"
    /\ last.args.key.key = "ENTER"
    /\ EventNames(last.emitted)
          = <<"command.submit", "command.write", "command.quit", "command.end">>
    /\ last.emitted[1].payload = <<"e", "x", "i", "t", "!">>
    /\ last.emitted[2].payload.force
    /\ last.emitted[3].payload.force
    /\ manager.active = Some("normal")

\* The words of the command table.
KnownWords ==
    LET plain == WriteWords \cup QuitWords \cup WqWords \cup XWords \cup EditWords
    IN  EchoWords \cup plain \cup Forced(plain)

\* C23: every submission, of an empty text, a known command or an unknown
\* word, returns a result that asks for Normal mode; an unknown word emits
\* exactly one command.error, returns status command_error and emits no
\* command.write, command.quit or command.edit.
C23_SubmitAlwaysReturnsToNormal ==
    LET out == SubmitCommandLine(CommandHere)
    IN  /\ out.result.consumed
        /\ out.result.switch_to = Some("normal")
        /\ EventNames(out.ctx.emitted)[1] = "command.submit"
        /\ SubmittedText = <<>> =>
              /\ EventNames(out.ctx.emitted) = <<"command.submit">>
              /\ out.result.status = "command_empty"
        /\ (SubmittedText # <<>> /\ SubmittedWord \notin KnownWords) =>
              /\ EventNames(out.ctx.emitted) = <<"command.submit", "command.error">>
              /\ out.ctx.emitted[2].payload = SubmittedWord
              /\ out.result.status = "command_error"
        /\ (SubmittedText # <<>> /\ SubmittedWord \in KnownWords) =>
              /\ "command.error" \notin {EventNames(out.ctx.emitted)[i] : i \in DOMAIN out.ctx.emitted}
              /\ out.result.status # "command_error"

\* RETURN has just submitted an unknown word followed by an argument: one
\* command.error between command.submit and the mode's command.end.
C23_Witness ==
    /\ last.op = "handle_key"
    /\ last.args.key.key = "RETURN"
    /\ last.result[1].status = "command_error"
    /\ EventNames(last.emitted) = <<"command.submit", "command.error", "command.end">>
    /\ Len(last.emitted[1].payload) = 3
    /\ manager.active = Some("normal")

\* C24: in Command mode BACKSPACE removes the last typed text, and when that
\* leaves the command text empty the key's result asks to leave the mode.
C24_BackspaceLeavesWhenEmpty ==
    [][(last'.op = "handle_key" /\ last'.args.key.key = "BACKSPACE"
            /\ modes.command.typed # <<>>) =>
          /\ modes'.command.typed
                = SubSeq(modes.command.typed, 1, Len(modes.command.typed) - 1)
          /\ Len(modes.command.typed) = 1 =>
                /\ last'.result[1].switch_to # None
                /\ manager'.active # Some("command")]_vars

(***************************************************************************)
(* Cursor and selection stay inside the document (SpecVisual)              *)
(***************************************************************************)

\* Targets around the document, inside it and outside it.
Targets == {<<row, col>> : row \in -1..3, col \in -1..3}

\* C21: _clamp_cursor brings every target to a position of the document, so
\* each directional action commits a cursor with its row in [0, last row]
\* and its column in [0, length of that row]; and after any sequence of the
\* visual actions and hooks (the only handlers the keys of the four modes
\* reach that touch the buffer) the cursor, both endpoints of a selection
\* and the anchor are positions of the current document.
C21_CursorAndSelectionStayValid ==
    /\ \A target \in Targets :
          /\ ClampCursor(buffer, target[1], target[2]) \in Positions(buffer.document)
          /\ ApplySelection(Here, target).ctx.buffer.state.cursor
                = ClampCursor(buffer, target[1], target[2])
    /\ buffer.state.cursor \in Positions(buffer.document)
    /\ buffer.state.selection # None =>
          /\ buffer.state.selection[1][1] \in Positions(buffer.document)
          /\ buffer.state.selection[1][2] \in Positions(buffer.document)
    /\ (visual_state # None /\ "anchor" \in DOMAIN visual_state[1]) =>
          visual_state[1]["anchor"] \in Positions(buffer.document)

\* After a deletion that shortened the document, extend_right has stopped at
\* the end of the last line with a selection that starts elsewhere.
C21_Witness ==
    /\ last.op = "extend_right"
    /\ buffer.undo.entries # <<>>
    /\ FlattenLines(buffer.document.lines) # <<>>
    /\ buffer.state.cursor = LastPosition(buffer.document)
    /\ buffer.state.selection # None
    /\ buffer.state.selection[1][1] # buffer.state.selection[1][2]
    /\ buffer.state.selection[1][2] = buffer.state.cursor

(***************************************************************************)
(* SpecParse: OperatorPipeline.parse on bounded token sequences            *)
(***************************************************************************)

MaxTokens == 4

\* Decimal digits, a digit int() rejects, two keys and the empty token.
ParseTokens == {"0", "2", "sup2", "d", "w", ""}

RECURSIVE SeqsUpTo(_, _)
SeqsUpTo(set, n) ==
    IF n = 0 THEN {<<>>}
    ELSE LET shorter == SeqsUpTo(set, n - 1)
         IN  shorter \cup {Append(seq, x) : seq \in {q \in shorter : Len(q) = n - 1}, x \in set}

ParseCall(keys) ==
    /\ last.op = "init"
    /\ last' = Call("parse", [keys |-> keys], Parse(keys).raised, Parse(keys).plan)
    /\ UNCHANGED <<registry, cache, modeVars, buffer, visual_state>>

NextParse == \E keys \in SeqsUpTo(ParseTokens, MaxTokens) : ParseCall(keys)

SpecParse == InitUndo /\ [][NextParse]_vars

\* The value of a run of decimal digit tokens, most significant first.
RECURSIVE DecimalValue(_)
DecimalValue(run) ==
    IF run = <<>> THEN 0
    ELSE LET d == run[Len(run)]
         IN  10 * DecimalValue(SubSeq(run, 1, Len(run) - 1))
                + (CHOOSE v \in 0..9 : d = <<"0", "1", "2", "3", "4", "5", "6", "7", "8", "9">>[v + 1])

\* C25: parse(tokens) returns; it returns a plan exactly when at least one
\* token remains after the motion (the token after the leading run of digit
\* tokens); the plan's count is the value of the run (None without a run),
\* its motion the token after the run, its operator the first token after
\* the motion and its raw_input the whole token sequence in order.
C25_ParsePlans ==
    last.op = "parse" =>
        LET keys == last.args.keys
            n == CHOOSE k \in 0..Len(keys) :
                    /\ \A i \in 1..k : keys[i] \in Digits \cup OtherDigits
                    /\ k < Len(keys) => keys[k + 1] \notin Digits \cup OtherDigits
        IN  /\ last.raised = "none"
            /\ last.result # None <=> Len(keys) >= n + 2
            /\ last.result # None =>
                  /\ last.result[1].count
                        = IF n = 0 THEN None ELSE Some(DecimalValue(SubSeq(keys, 1, n)))
                  /\ last.result[1].motion_id = Some(keys[n + 1])
                  /\ last.result[1].operator_id = keys[n + 2]
                  /\ last.result[1].raw_input = keys

(***************************************************************************)
(* SpecFire: fire requests for timers that were cancelled or armed again   *)
(***************************************************************************)

\* The host's registry with one more binding: in Insert mode "j" leaves for
\* Normal once the flag leave_ready is set, so a pending "j" can become a
\* match by the time its timer fires.
FireRegistry ==
    RegisterBindings(ModeRegistry,
        << MakeBinding("insert.j_leave", "insert", <<"j">>, 1000, "core.exit_to_normal",
                       <<When("leave_ready", TRUE)>>, 0) >>)

FireModes == {"normal", "insert"}

\* A fire request: _trigger_timeout(mode_name, generation).
TriggerTimeoutCall(mode_name, generation) ==
    /\ Return("trigger_timeout", [mode_name |-> mode_name, generation |-> generation],
              Value(TriggerTimeout(Now, mode_name, generation)))

InitFire ==
    /\ registry = FireRegistry
    /\ cache = EmptyDict
    /\ manager = [active |-> Some("normal"), pending_timeouts |-> <<>>, timer_counter |-> 0]
    /\ modes = [normal |-> [pending |-> <<>>],
                insert |-> [pending |-> <<>>],
                visual |-> [pending |-> <<>>, operator_tokens |-> <<>>],
                command |-> [pending |-> <<>>, typed |-> <<>>, command_state |-> None]]
    /\ flags = EmptyDict
    /\ buffer = DefaultBuffer
    /\ visual_state = None
    /\ last = [op |-> "register_mode", args |-> NoArgs, raised |-> "none", result |-> None,
               trace |-> <<[step |-> "on_enter", mode |-> "normal", other |-> None,
                            generation |-> 0, count |-> 0]>>,
               emitted |-> <<>>]

NextFire ==
    \/ \E key \in {KeyInput(k, <<>>, None) : k \in {"i", "j", "ESC"}} : HandleKey(key)
    \/ UpdateFlagCall("leave_ready", TRUE)
    \/ \E name \in FireModes : ArmTimeoutCall(name, 500)
    \/ TimePasses
    \/ ProcessTimeouts
    \/ ForceTimeout(None)
    \/ \E name \in FireModes, generation \in 0..MaxTimerCounter :
          TriggerTimeoutCall(name, generation)

SpecFire == InitFire /\ [][NextFire]_vars

\* The handle_timeout steps of a trace for one timer.
FiredFor(trace, name, generation) ==
    SelectSeq(trace, LAMBDA st : st.step = "handle_timeout" /\ st.mode = name
                                    /\ st.generation = generation)

\* No stored timer has the generation.
NotStored(timers, generation) == \A i \in DOMAIN timers : timers[i].generation # generation

\* C26: _trigger_timeout(mode, g) invokes handle_timeout only when the timer
\* stored for the mode has generation g; a request for a timer that was
\* cancelled or armed again, also by a handler fired earlier in the same
\* force_timeout or process_timeouts pass, takes no step at all (no handler,
\* no mode switch) and leaves the stored timers as they are; a timer that
\* fires is no longer stored afterwards and its generation is never stored
\* again, so it fires at most once.
C26_FireActsOnItsTimerOnly ==
    [][/\ last'.op = "trigger_timeout" =>
            LET name == last'.args.mode_name
                g == last'.args.generation
                timer == TimerOf(manager.pending_timeouts, name)
            IN  IF timer = None \/ timer[1].generation # g
                THEN /\ last'.trace = <<>>
                     /\ last'.result = Some(TimeoutResult)
                     /\ UNCHANGED <<manager, modes, flags>>
                ELSE /\ last'.trace[1].step = "handle_timeout"
                     /\ Len(FiredFor(last'.trace, name, g)) = 1
                     /\ Len(SelectSeq(last'.trace, LAMBDA st : st.step = "handle_timeout")) = 1
                     /\ NotStored(manager'.pending_timeouts, g)
       /\ last'.op \in {"force_timeout", "process_timeouts"} =>
            /\ last'.trace # <<>> => last'.trace[1].step = "handle_timeout"
            /\ \A i \in DOMAIN last'.trace :
                  last'.trace[i].step = "handle_timeout" =>
                      LET st == last'.trace[i]
                      IN  /\ TimerOf(manager.pending_timeouts, st.mode) # None
                          /\ TimerOf(manager.pending_timeouts, st.mode)[1].generation
                                = st.generation
                          /\ Len(FiredFor(last'.trace, st.mode, st.generation)) = 1
                          /\ \A j \in 1..(i - 1) :
                                ~(/\ last'.trace[j].mode = st.mode
                                  /\ last'.trace[j].step \in {"cancel_timeout", "arm_timeout"})
                          /\ NotStored(manager'.pending_timeouts, st.generation)
            /\ \A k \in DOMAIN manager.pending_timeouts :
                  LET timer == manager.pending_timeouts[k]
                  IN  (\E j \in DOMAIN last'.trace :
                          /\ last'.trace[j].step = "cancel_timeout"
                          /\ last'.trace[j].mode = timer.name
                          /\ last'.trace[j].generation = timer.generation) =>
                        /\ FiredFor(last'.trace, timer.name, timer.generation) = <<>>
                        /\ timer.name \in DOMAIN last'.result[1] =>
                              last'.result[1][timer.name] = TimeoutResult
       /\ \A k \in DOMAIN manager'.pending_timeouts :
            LET timer == manager'.pending_timeouts[k]
            IN  /\ timer.generation <= manager'.timer_counter
                /\ timer.generation <= manager.timer_counter =>
                      TimerOf(manager.pending_timeouts, timer.name) = Some(timer)
                         \/ (TimerOf(manager.pending_timeouts, timer.name) # None
                             /\ TimerOf(manager.pending_timeouts, timer.name)[1].generation
                                   = timer.generation)]_vars

\* A force_timeout pass in which Insert's handler left for Normal and so
\* cancelled Normal's timer, whose own request later in the pass did nothing.
C26_Witness ==
    /\ last.op = "force_timeout"
    /\ last.result # None
    /\ DOMAIN last.result[1] = {"insert", "normal"}
    /\ last.result[1]["normal"] = TimeoutResult
    /\ StepsOn(last.trace, "handle_timeout", "insert") # <<>>
    /\ StepsOn(last.trace, "handle_timeout", "normal") = <<>>
    /\ \E j \in DOMAIN last.trace :
          /\ last.trace[j].step = "cancel_timeout"
          /\ last.trace[j].mode = "normal"
          /\ last.trace[j].generation > 0
    /\ manager.active = Some("normal")
    /\ manager.pending_timeouts = <<>>

(***************************************************************************)
(* The tokens the operator pipeline receives in Visual mode (SpecModes)    *)
(***************************************************************************)

\* C30: when the resolver misses on a key in Visual mode, the pipeline parses
\* every token accumulated since the last match, plan or timeout, the tokens
\* the resolver answered pending for included: a plan of that whole sequence
\* is emitted as operator.plan, and without a plan the whole sequence is kept
\* for the next key.
C30_MissParsesAllAccumulated ==
    manager.active = Some("visual") =>
        \A key \in ModeKeys :
            LET out == VisualHandleKey(Now, key)
                status == out.w.trace[1].other[1]
                all == modes.visual.operator_tokens \o modes.visual.pending
                          \o <<KeyToToken(key)>>
                plan == PipelineParse(all)
            IN  status \notin {"match", "pending"} =>
                    IF plan # None
                    THEN /\ out.result.status = "operator"
                         /\ out.w.emitted = <<[event |-> "operator.plan",
                                               payload |-> Some(BuildContext(plan[1]))]>>
                    ELSE key.key \notin EscapeKeys =>
                            out.w.modes.visual.operator_tokens = all

(***************************************************************************)
(* The text visual yank, delete and change take (SpecVisual)               *)
(***************************************************************************)

\* The texts yank, delete and change would put into the unnamed register.
TakenTexts ==
    {RegisterGet(out.ctx.buffer.registers, Unnamed).text :
        out \in {YankSelection(Here), DeleteSelection(Here), ChangeSelection(Here)}}

\* The offsets of the ordered endpoints in the flattened text.
EarlierOffset == OffsetForCursor(buffer.document.lines, Earlier(buffer))

LaterOffset == OffsetForCursor(buffer.document.lines, Later(buffer))

\* C29 as stated: the text taken runs from the character at the earlier
\* endpoint to the character at the later endpoint, both included (to the
\* end of the text when the later endpoint is the end of the document).
C29_TextIncludesBothEndpoints ==
    buffer.state.selection # None =>
        \A text \in TakenTexts :
            text = SubSeq(FlattenLines(buffer.document.lines), EarlierOffset + 1,
                          Minimum({LaterOffset + 1, Len(FlattenLines(buffer.document.lines))}))

\* C29, amended: the text taken runs from the character at the earlier
\* endpoint up to the character before the later endpoint; the character at
\* the later endpoint is not part of it, whichever endpoint is the anchor.
C29_TextExcludesLaterEndpoint ==
    buffer.state.selection # None =>
        \A text \in TakenTexts :
            /\ Len(text) = LaterOffset - EarlierOffset
            /\ \A i \in 1..Len(text) :
                  text[i] = FlattenLines(buffer.document.lines)[EarlierOffset + i]

\* A yank has just taken "a" from a selection whose anchor is the later
\* endpoint and whose later endpoint is on the line break.
C29_Witness ==
    /\ last.op = "yank_selection"
    /\ buffer.state.selection # None
    /\ ~CursorLE(buffer.state.selection[1][1], buffer.state.selection[1][2])
    /\ LaterOffset < Len(FlattenLines(buffer.document.lines))
    /\ FlattenLines(buffer.document.lines)[LaterOffset + 1] = NL
    /\ RegisterGet(buffer.registers, Unnamed).text = <<"a">>

(***************************************************************************)
(* SpecHistory: a host that edits a Buffer and never calls undo or redo    *)
(***************************************************************************)

MaxHistory == 2

\* The texts the buffers of SpecHistory start with.
HistoryTexts == {<<>>, <<"a", NL>>}

\* The cursors the host passes: positions of the documents and one outside.
HistoryCursors == {<<0, 0>>, <<0, 1>>, <<1, 0>>, <<0, 3>>}

\* A Buffer call, counted in last.args.edits when it returned.
HistoryCall(op, out) ==
    /\ Len(out.buffer.undo.entries) <= MaxHistory
    /\ buffer' = out.buffer
    /\ last' = Call(op, [edits |-> last.args.edits + IF out.raised = "none" THEN 1 ELSE 0],
                    out.raised, out.result)
    /\ UNCHANGED <<registry, cache, manager, modes, flags, visual_state>>

HistoryReplaceCall(start, end, text) ==
    /\ HistoryCall("replace_range", ReplaceRange(buffer, start, end, text, "edit"))

HistoryInsertCall(text, cursor) ==
    /\ HistoryCall("insert_text", InsertText(buffer, text, cursor))

HistoryDeleteCall(start, end) ==
    /\ HistoryCall("delete_range", DeleteRange(buffer, start, end))

InitHistory ==
    /\ registry = EmptyRegistry
    /\ cache = EmptyDict
    /\ last = Call("init", [edits |-> 0], "none", None)
    /\ ManagerConstructed
    /\ buffer \in {BufferFromText(text) : text \in HistoryTexts}
    /\ visual_state = None

NextHistory ==
    \/ \E start, end \in HistoryCursors : HistoryReplaceCall(start, end, <<"c">>)
    \/ \E text \in {<<"c">>, <<NL>>}, cursor \in {None, Some(<<0, 1>>), Some(<<0, 3>>)} :
          HistoryInsertCall(text, cursor)
    \/ \E start \in {<<0, 0>>, <<0, 1>>}, end \in HistoryCursors : HistoryDeleteCall(start, end)

SpecHistory == InitHistory /\ [][NextHistory]_vars

SelectCall(op, out, active) ==
    /\ Len(out.ctx.buffer.undo.entries) <= MaxEdits
    /\ buffer' = out.ctx.buffer
    /\ visual_state' = out.ctx.visual_state
    /\ last' = Call(op, [active |-> active], out.raised, out.result)
    /\ UNCHANGED <<registry, cache, manager, modes, flags>>

\* What handle_key does with the answer of an action: the mode is left when
\* the result names another mode.
Left(out) ==
    IF out.raised = "none" /\ out.result # None /\ out.result[1].switch_to # None
    THEN [ExitVisual(out.ctx) EXCEPT !.result = out.result]
    ELSE out

StillActive(out) ==
    ~(out.raised = "none" /\ out.result # None /\ out.result[1].switch_to # None)

\* A bound action run by handle_key while Visual is the active mode.
SelectAction(op, out) ==
    /\ last.args.active
    /\ SelectCall(op, Left(out), StillActive(out))

SelectEnter ==
    /\ ~last.args.active
    /\ SelectCall("on_enter", EnterVisual(Here), TRUE)

\* The exit binding of the mode: core.exit_to_normal.
SelectEscape ==
    /\ last.args.active
    /\ SelectCall("exit_to_normal", ExitVisual(Here), FALSE)

SelectExtendLeft == /\ SelectAction("extend_left", ExtendLeft(Here))

SelectExtendRight == /\ SelectAction("extend_right", ExtendRight(Here))

SelectExtendUp == /\ SelectAction("extend_up", ExtendUp(Here))

SelectExtendDown == /\ SelectAction("extend_down", ExtendDown(Here))

SelectSwapAnchor == /\ SelectAction("swap_anchor", SwapAnchor(Here))

SelectYank == /\ SelectAction("yank_selection", YankSelection(Here))

SelectDelete == /\ SelectAction("delete_selection", DeleteSelection(Here))

SelectChange == /\ SelectAction("change_selection", ChangeSelection(Here))

InitSelect ==
    /\ registry = EmptyRegistry
    /\ cache = EmptyDict
    /\ last = Call("init", [active |-> FALSE], "none", None)
    /\ ManagerConstructed
    /\ buffer \in {BufferFromText(text) : text \in VisualTexts}
    /\ visual_state = None

NextSelect ==
    \/ SelectEnter
    \/ SelectEscape
    \/ SelectExtendLeft
    \/ SelectExtendRight
    \/ SelectExtendUp
    \/ SelectExtendDown
    \/ SelectSwapAnchor
    \/ SelectYank
    \/ SelectDelete
    \/ SelectChange

SpecSelect == InitSelect /\ [][NextSelect]_vars

\* The anchor, the cursor and the selection of a context.
SelectionView(ctx) ==
    [anchor |-> IF ctx.visual_state # None /\ "anchor" \in DOMAIN ctx.visual_state[1]
                THEN Some(Anchor(ctx)) ELSE None,
     cursor |-> ctx.buffer.state.cursor,
     selection |-> ctx.buffer.state.selection]

\* C39: while Visual is active and driven through its bound actions the
\* selection is the pair (anchor, cursor); entering sets anchor and cursor
\* to the cursor at entry; a directional action leaves the anchor; two
\* swap_anchor in a row restore anchor, cursor and selection.
C39_SelectionIsAnchorAndCursor ==
    /\ last.args.active =>
          /\ SelectionView(Here).anchor # None
          /\ buffer.state.selection = Some(<<Anchor(Here), buffer.state.cursor>>)
          /\ \A out \in {ExtendLeft(Here), ExtendRight(Here), ExtendUp(Here), ExtendDown(Here)} :
                /\ Anchor(out.ctx) = Anchor(Here)
                /\ out.ctx.buffer.state.selection
                      = Some(<<Anchor(Here), out.ctx.buffer.state.cursor>>)
          /\ SelectionView(SwapAnchor(Here).ctx)
                = [anchor |-> Some(buffer.state.cursor), cursor |-> Anchor(Here),
                   selection |-> Some(<<buffer.state.cursor, Anchor(Here)>>)]
          /\ SelectionView(SwapAnchor(SwapAnchor(Here).ctx).ctx) = SelectionView(Here)
    /\ ~last.args.active =>
          SelectionView(EnterVisual(Here).ctx)
             = [anchor |-> Some(buffer.state.cursor), cursor |-> buffer.state.cursor,
                selection |-> Some(<<buffer.state.cursor, buffer.state.cursor>>)]

\* Visual entered a second time, away from the origin, the cursor moved off
\* the anchor and swapped with it.
C39_Witness ==
    /\ last.args.active
    /\ last.op = "swap_anchor"
    /\ Anchor(Here) # buffer.state.cursor
    /\ Anchor(Here) # <<0, 0>>
    /\ buffer.state.cursor # <<0, 0>>
    /\ buffer.state.selection = Some(<<Anchor(Here), buffer.state.cursor>>)

(***************************************************************************)
(* keymaps/models.py: the token of a KeyStroke, and SpecChord, a host that *)
(* presses keys with modifiers                                             *)
(***************************************************************************)

\* The modifier names a host lists, one of them capitalised, one blank.
ModifierNames == {"ctrl", "Ctrl", "shift", " "}

\* str.strip and str.lower on the modifier names.
StripName(m) == IF m = " " THEN "" ELSE m
LowerName(m) == IF m = "Ctrl" THEN "ctrl" ELSE m

\* _normalize_modifiers: stripped, lower-cased, blank ones dropped, duplicates
\* dropped, sorted.
NormalizeModifiers(modifiers) ==
    SortedTuple({LowerName(StripName(modifiers[i])) :
                    i \in {j \in DOMAIN modifiers : StripName(modifiers[j]) # ""}})

\* KeyStroke(key, modifiers).token
StrokeToken(key, modifiers) ==
    IF NormalizeModifiers(modifiers) # <<>>
    THEN StrJoin(NormalizeModifiers(modifiers), "+") \o "+" \o key
    ELSE key

\* The default bindings and one on the stroke ctrl+shift+d that leaves Insert.
ChordRegistry ==
    RegisterBindings(ModeRegistry,
        << MakeBinding("insert.chord", "insert", <<StrokeToken("d", <<"shift", "ctrl">>)>>,
                       1000, "core.exit_to_normal", <<>>, 0) >>)

\* The key d pressed with Ctrl and Shift, as hosts may list the modifiers.
ChordModifiers ==
    {<<"ctrl", "shift">>, <<"shift", "ctrl">>, <<"Ctrl", "shift">>,
     <<"ctrl", " ", "shift">>, <<"ctrl", "ctrl", "shift">>}

ChordKeys ==
    {KeyInput("d", m, None) : m \in ChordModifiers}
        \cup {KeyInput(k, <<>>, None) : k \in {"i", "j", "k", "d", "g", "ESC"}}

InitChord ==
    /\ registry = ChordRegistry
    /\ cache = EmptyDict
    /\ manager = [active |-> Some("normal"), pending_timeouts |-> <<>>, timer_counter |-> 0]
    /\ modes = [normal |-> [pending |-> <<>>],
                insert |-> [pending |-> <<>>],
                visual |-> [pending |-> <<>>, operator_tokens |-> <<>>],
                command |-> [pending |-> <<>>, typed |-> <<>>, command_state |-> None]]
    /\ flags = EmptyDict
    /\ buffer = DefaultBuffer
    /\ visual_state = None
    /\ last = [op |-> "register_mode", args |-> NoArgs, raised |-> "none", result |-> None,
               trace |-> <<[step |-> "on_enter", mode |-> "normal", other |-> None,
                            generation |-> 0, count |-> 0]>>,
               emitted |-> <<>>]

ChordKey(key) == /\ HandleKey(key)

ChordSwitch(name) == /\ SwitchModeCall(name)

NextChord ==
    \/ \E key \in ChordKeys : ChordKey(key)
    \/ \E name \in {"normal", "insert"} : ChordSwitch(name)

SpecChord == InitChord /\ [][NextChord]_vars

\* C31: the token Insert mode derives from a key event is the token of the
\* KeyStroke with the same key and modifiers, so two events with the same key
\* and the same set of modifiers get the same result from handle_key, and an
\* event whose stroke a binding is on runs that binding.
C31_TokenIsTheStrokeToken ==
    manager.active = Some("insert") /\ modes.insert.pending = <<>> =>
        \A k1, k2 \in ChordKeys :
            k1.key = k2.key
              /\ NormalizeModifiers(k1.modifiers) = NormalizeModifiers(k2.modifiers) =>
                /\ InsertHandleKey(Now, k1).result = InsertHandleKey(Now, k2).result
                /\ InsertHandleKey(Now, k1).w.modes.insert.pending
                      = InsertHandleKey(Now, k2).w.modes.insert.pending
                /\ StrokeToken(k1.key, k1.modifiers) = "ctrl+shift+d" =>
                      InsertHandleKey(Now, k1).result.switch_to = Some("normal")

(***************************************************************************)
(* SpecType: a host that types into Insert mode; the key of each           *)
(* handle_key is kept in last.args.key                                     *)
(***************************************************************************)

\* The key events of the typing host: keys that carry their text, and keys
\* that carry none.
TypeKeys ==
    {KeyInput(k, <<>>, Some(k)) : k \in {"a", "j", "k", "i"}}
        \cup {KeyInput(k, <<>>, None) : k \in {"ESC", "d"}}

TypeKey(key) ==
    /\ manager.active # None
    /\ Return("handle_key", [key |-> key], Value(HandleKeyOp(Now, key)))

TypeSwitch(name) == /\ SwitchModeCall(name)

NextType ==
    \/ \E key \in TypeKeys : TypeKey(key)
    \/ \E name \in {"normal", "insert"} : TypeSwitch(name)

SpecType == InitModes /\ [][NextType]_vars

\* The resolver missed in the handle_key that last records.
Missed(call) ==
    \E i \in DOMAIN call.trace :
        call.trace[i].step = "resolve" /\ call.trace[i].other = Some("miss")

\* C32: in Insert mode a key the resolver misses and that carries text has
\* its text inserted into the buffer at the cursor and is reported consumed.
C32_MissedTextIsInserted ==
    [][(/\ manager.active = Some("insert")
        /\ last'.op = "handle_key"
        /\ last'.args.key.text # None
        /\ Missed(last'))
          => /\ last'.result[1].consumed
             /\ FlattenLines(buffer'.document.lines)
                   = FlattenLines(InsertText(buffer, <<last'.args.key.text[1]>>, None)
                                     .buffer.document.lines)]_vars

(***************************************************************************)
(* SpecPrefix: a host that presses keys and sets and clears the flag that  *)
(* guards insert.j_panel, the binding on "j", a strict prefix of the       *)
(* sequence "j k" of insert.jk                                             *)
(***************************************************************************)

PrefixKeys == {KeyInput(k, <<>>, None) : k \in {"i", "j", "k", "g", "v", "ESC"}}

PrefixKey(key) == /\ TypeKey(key)

PrefixFlag(value) == /\ UpdateFlagCall("panel_open", value)

NextPrefix ==
    \/ \E key \in PrefixKeys : PrefixKey(key)
    \/ \E value \in BOOLEAN : PrefixFlag(value)

SpecPrefix == InitModes /\ [][NextPrefix]_vars

\* The bindings of a mode on exactly these tokens whose guards pass.
Passing(mode, tokens, context) ==
    {b \in {registry.bindings[id] : id \in DOMAIN registry.bindings} :
        b.mode = mode /\ b.sequence.tokens = tokens /\ Allows(b, context)}

\* A binding of the mode sits on a sequence these tokens are a strict prefix of.
HasLonger(mode, tokens) ==
    \E id \in DOMAIN registry.bindings :
        LET b == registry.bindings[id]
        IN  /\ b.mode = mode
            /\ Len(b.sequence.tokens) > Len(tokens)
            /\ SubSeq(b.sequence.tokens, 1, Len(tokens)) = tokens

\* The resolver answered match in the handle_key that the record is of.
Matched(call) ==
    \E i \in DOMAIN call.trace :
        call.trace[i].step = "resolve" /\ call.trace[i].other = Some("match")

\* The modes of src/ that resolve a key and run the match themselves.
PrefixModes == {"insert", "visual"}

\* C38 as claimed: a binding on a strict prefix that passes its guards is
\* matched at once, the pending tokens are cleared and no timer is armed; and
\* a longer binding is never matched by handle_key while a binding on a
\* strict prefix of its sequence passes its guards.
C38_ShorterAlwaysWins ==
    [][(last'.op = "handle_key" /\ manager.active # None
            /\ manager.active[1] \in PrefixModes) =>
        LET mode == manager.active[1]
            tokens == modes[mode].pending \o <<KeyToToken(last'.args.key)>>
        IN  /\ (Passing(mode, tokens, flags) # {} /\ HasLonger(mode, tokens)) =>
                  /\ Matched(last')
                  /\ modes'[mode].pending = <<>>
                  /\ TimerOf(manager'.pending_timeouts, mode) = None
            /\ (Matched(last') /\ Len(tokens) > 1) =>
                  \A n \in 1..(Len(tokens) - 1) :
                      Passing(mode, SubSeq(tokens, 1, n), flags) = {}]_vars

\* C38: a binding on a strict prefix that passes its guards when its last
\* key is pressed is matched at once and the pending tokens are cleared; a
\* timer is armed only when the result of the action asks for one; tokens
\* stay pending only when no binding on them passed its guards at that key,
\* so a longer binding is matched only after the guards of the shorter one
\* failed at the key that completed the shorter sequence.
C38_ShorterWinsWhenItsKeyIsPressed ==
    [][(last'.op = "handle_key" /\ manager.active # None
            /\ manager.active[1] \in PrefixModes) =>
        LET mode == manager.active[1]
            tokens == modes[mode].pending \o <<KeyToToken(last'.args.key)>>
        IN  /\ (Passing(mode, tokens, flags) # {} /\ HasLonger(mode, tokens)) =>
                  /\ Matched(last')
                  /\ modes'[mode].pending = <<>>
                  /\ last'.result[1].status # "pending"
                  /\ TimerOf(manager'.pending_timeouts, mode) # None =>
                        TruthyInt(last'.result[1].timeout_ms)
            /\ modes'[mode].pending # <<>> =>
                  /\ modes'[mode].pending = tokens
                  /\ Passing(mode, tokens, flags) = {}
            /\ (Matched(last') /\ Len(tokens) > 1) =>
                  modes[mode].pending = SubSeq(tokens, 1, Len(tokens) - 1)]_vars

\* Insert mode has just run insert.j_panel on "j" while the panel is open,
\* in a registry that also binds "j k".
C38_Witness ==
    /\ last.op = "handle_key"
    /\ last.args # NoArgs
    /\ last.args.key.key = "j"
    /\ manager.active = Some("insert")
    /\ "panel_open" \in DOMAIN flags
    /\ flags["panel_open"]
    /\ Matched(last)
    /\ modes.insert.pending = <<>>
    /\ HasLonger("insert", <<"j">>)

(***************************************************************************)
(* SpecDriven: the manager driven through handle_key, switch_mode,         *)
(* process_timeouts and force_timeout only, while time passes and the host *)
(* sets a keymap flag                                                      *)
(***************************************************************************)

DrivenKey(key) == /\ HandleKey(key)

DrivenSwitch(name) == /\ SwitchModeCall(name)

DrivenForce(mode_name) == /\ ForceTimeout(mode_name)

DrivenProcess == /\ ProcessTimeouts

DrivenTime == /\ TimePasses

DrivenFlag == /\ UpdateFlagCall("panel_open", TRUE)

NextDriven ==
    \/ \E key \in ModeKeys : DrivenKey(key)
    \/ \E name \in ModeNames \cup {"replace"} : DrivenSwitch(name)
    \/ \E name \in {None} \cup {Some(n) : n \in ModeNames} : DrivenForce(name)
    \/ DrivenProcess
    \/ DrivenTime
    \/ DrivenFlag

SpecDriven == InitModes /\ [][NextDriven]_vars

\* The modes whose handle_timeout a call ran.
TimedOut(call) ==
    {call.trace[i].mode : i \in {j \in DOMAIN call.trace : call.trace[j].step = "handle_timeout"}}

\* C33: between calls the manager holds at most one pending timer and it is
\* the active mode's; a timeout that fires is handled by the mode that is
\* active when it fires.
C33_OnlyTheActiveModeHasATimer ==
    /\ [](/\ Len(manager.pending_timeouts) <= 1
          /\ \A i \in DOMAIN manager.pending_timeouts :
                manager.active = Some(manager.pending_timeouts[i].name))
    /\ [][last'.op \in {"process_timeouts", "force_timeout"} =>
              TimedOut(last') \subseteq {manager.active[1]}]_vars

\* A timer of Insert mode fired after the manager had left Normal, its
\* handler asked for another one, and that one is pending for Insert, the
\* active mode.
C33_Witness ==
    /\ last.op \in {"process_timeouts", "force_timeout"}
    /\ TimedOut(last) = {"insert"}
    /\ manager.active = Some("insert")
    /\ Len(manager.pending_timeouts) = 1
    /\ manager.pending_timeouts[1].name = "insert"

(***************************************************************************)
(* SpecFlags: the four modes driven through the manager on a buffer, the   *)
(* Visual actions of keymaps/defaults.py bound in Visual mode.  The hooks  *)
(* of VisualMode act on the buffer in the order the manager called them.   *)
(***************************************************************************)

\* The handlers of actions/visual.py bound in SpecFlags.
VisualHandlers == {"extend_right", "delete_selection", "change_selection"}

FlagsActions ==
    << [id |-> "visual.extend_right", handler |-> "extend_right"],
       [id |-> "visual.delete_selection", handler |-> "delete_selection"],
       [id |-> "visual.change_selection", handler |-> "change_selection"] >>

FlagsBindings ==
    << MakeBinding("visual.extend_right", "visual", <<"l">>, 1000, "visual.extend_right", <<>>, 0),
       MakeBinding("visual.delete_selection", "visual", <<"d">>, 1000,
                   "visual.delete_selection", <<>>, 0),
       MakeBinding("visual.change_selection", "visual", <<"c">>, 1000,
                   "visual.change_selection", <<>>, 0) >>

FlagsRegistry == RegisterBindings(RegisterActions(ModeRegistry, FlagsActions), FlagsBindings)

\* A handler of actions/visual.py called on the context.
VisualOutcome(handler, ctx) ==
    CASE handler = "extend_right" -> ExtendRight(ctx)
      [] handler = "delete_selection" -> DeleteSelection(ctx)
      [] handler = "change_selection" -> ChangeSelection(ctx)

\* The on_enter and on_exit of VisualMode among the steps of a call, applied
\* to the buffer in their order.
RECURSIVE Hooks(_, _)
Hooks(ctx, trace) ==
    IF trace = <<>> THEN ctx
    ELSE Hooks(IF trace[1].mode = "visual" /\ trace[1].step = "on_enter"
               THEN EnterVisual(ctx).ctx
               ELSE IF trace[1].mode = "visual" /\ trace[1].step = "on_exit"
               THEN ExitVisual(ctx).ctx
               ELSE ctx,
               Tail(trace))

\* VisualMode.handle_key for a key the resolver matches to a Visual action:
\* pending and operator tokens are cleared, the action runs on the buffer,
\* _after_mode_result applies its result.
VisualActionKey(w, r, ctx) ==
    LET out == VisualOutcome(r.result.match[1].action.handler, ctx)
        cleared == [r.w EXCEPT !.modes.visual.pending = <<>>,
                               !.modes.visual.operator_tokens = <<>>]
        applied == AfterModeResult(cleared, "visual", out.result[1])
    IN  [w |-> applied.w, result |-> out.result, ctx |-> Hooks(out.ctx, applied.w.trace)]

\* ModeManager.handle_key on the manager and the buffer.
FlagsHandleKey(w, ctx, key) ==
    LET w0 == Step(w, "handle_key", "visual", None, 0, 0)
        pending == Append(w.modes.visual.pending, KeyToToken(key))
        r == ModeResolve([w0 EXCEPT !.modes.visual.pending = pending], "visual", pending)
    IN  IF /\ w.manager.active = Some("visual")
           /\ r.result.status = "match"
           /\ r.result.match # None
           /\ r.result.match[1].action.handler \in VisualHandlers
        THEN VisualActionKey(w, r, ctx)
        ELSE [w |-> HandleKeyOp(w, key).w, result |-> Some(HandleKeyOp(w, key).result),
              ctx |-> Hooks(ctx, HandleKeyOp(w, key).w.trace)]

\* Cap on ModeManager._timer_counter in SpecFlags.
MaxFlagTimers == 1

\* A manager call that returned: the manager, the modes, the flags, the
\* resolver cache and the buffer afterwards; the record of the call keeps the
\* operation and what it returned, not the steps taken.
FlagsReturn(op, out) ==
    /\ WithinBounds(out.w)
    /\ out.w.manager.timer_counter <= MaxFlagTimers
    /\ Len(out.ctx.buffer.undo.entries) <= MaxEdits
    /\ manager' = out.w.manager
    /\ modes' = out.w.modes
    /\ flags' = out.w.flags
    /\ cache' = out.w.cache
    /\ buffer' = out.ctx.buffer
    /\ visual_state' = out.ctx.visual_state
    /\ last' = ModeCall(op, NoArgs, "none", out.result, World(manager, modes, flags, cache))
    /\ UNCHANGED registry

FlagsKey(key) ==
    /\ FlagsReturn("handle_key", FlagsHandleKey(Now, Here, key))

FlagsSwitch(name) ==
    /\ FlagsReturn("switch_mode",
                   [w |-> SwitchMode(Now, name), result |-> None,
                    ctx |-> Hooks(Here, SwitchMode(Now, name).trace)])

FlagsForce ==
    /\ FlagsReturn("force_timeout",
                   [w |-> ForceTimeoutOp(Now, None).w,
                    result |-> Some(ForceTimeoutOp(Now, None).result),
                    ctx |-> Hooks(Here, ForceTimeoutOp(Now, None).w.trace)])

\* The text of the buffer: one line.
FlagsTexts == {<<"a", "b">>}

FlagsKeys == {KeyInput(k, <<>>, None) : k \in {"v", ":", "ESC", "l", "d", "c"}}

InitFlags ==
    /\ registry = FlagsRegistry
    /\ cache = EmptyDict
    /\ manager = [active |-> Some("normal"), pending_timeouts |-> <<>>, timer_counter |-> 0]
    /\ modes = [normal |-> [pending |-> <<>>],
                insert |-> [pending |-> <<>>],
                visual |-> [pending |-> <<>>, operator_tokens |-> <<>>],
                command |-> [pending |-> <<>>, typed |-> <<>>, command_state |-> None]]
    /\ flags = EmptyDict
    /\ buffer \in {BufferFromText(text) : text \in FlagsTexts}
    /\ visual_state = None
    /\ last = [op |-> "register_mode", args |-> NoArgs, raised |-> "none", result |-> None,
               trace |-> <<[step |-> "on_enter", mode |-> "normal", other |-> None,
                            generation |-> 0, count |-> 0]>>,
               emitted |-> <<>>]

NextFlags ==
    \/ \E key \in FlagsKeys : FlagsKey(key)
    \/ \E name \in ModeNames : FlagsSwitch(name)
    \/ FlagsForce

SpecFlags == InitFlags /\ [][NextFlags]_vars

\* A keymap flag that is present and true.
FlagSet(name) == name \in DOMAIN flags /\ flags[name]

\* C34: between host calls visual_active is true exactly when Visual is the
\* active mode, command_active exactly when Command is, and the buffer has
\* no selection when Visual is not the active mode.
C34_FlagsAndSelectionFollowTheMode ==
    /\ FlagSet("visual_active") <=> manager.active = Some("visual")
    /\ FlagSet("command_active") <=> manager.active = Some("command")
    /\ manager.active # Some("visual") => buffer.state.selection = None

\* Visual was left by deleting a selection that held text: the text is
\* gone, the mode is Normal, the flag is false and no selection is left.
C34_Witness ==
    /\ manager.active = Some("normal")
    /\ last.op = "handle_key"
    /\ Len(buffer.undo.entries) = 1
    /\ buffer.undo.entries[1].before_text # buffer.undo.entries[1].after_text
    /\ "visual_active" \in DOMAIN flags
    /\ ~flags["visual_active"]
    /\ buffer.state.selection = None

(***************************************************************************)
(* SpecSessions: Command mode entered, typed into, left (by ESC, by a      *)
(* submission, by the host's switch_mode) and entered again, under the     *)
(* default keymaps                                                         *)
(***************************************************************************)

\* Cap on the number of lines in extras["command_state"]["history"].
MaxSubmitted == 1

\* CommandMode.on_enter on the context: _typed is cleared, command.start is
\* emitted and the text synced.
CommandEnter(ctx) ==
    SyncText([EmitCommand(ctx, "command.start", None) EXCEPT !.typed = <<>>])

\* The lines submitted so far.
SubmittedLines(ctx) ==
    IF "history" \in DOMAIN StateDict(ctx) THEN StateDict(ctx)["history"] ELSE <<>>

SessionKeys ==
    {KeyInput(c, <<>>, Some(<<c>>)) : c \in {"w", "q"}}
        \cup {KeyInput(k, <<>>, None) : k \in {"BACKSPACE", "ENTER", "ESC"}}

\* handle_key while Command mode is active.
SessionKey(key) ==
    /\ Len(SubmittedLines(CommandKey(CommandHere, key).ctx)) <= MaxSubmitted
    /\ CommandKeyCall(key)

\* switch_mode("command") while another mode is active: Normal's on_exit,
\* then on_enter of Command mode.
SessionEnter ==
    /\ manager.active # Some("command")
    /\ modes' = [command |-> [typed |-> CommandEnter(CommandHere).typed,
                              command_state |-> CommandEnter(CommandHere).command_state]]
    /\ manager' = [manager EXCEPT !.active = Some("command")]
    /\ flags' = UpdateFlag(flags, "command_active", TRUE)
    /\ last' = [op |-> "switch_mode", args |-> [name |-> "command"], raised |-> "none",
                result |-> None, emitted |-> CommandEnter(CommandHere).emitted]
    /\ UNCHANGED <<registry, cache, buffer, visual_state>>

\* switch_mode("normal") while Command mode is active: on_exit of Command.
SessionLeave ==
    /\ manager.active = Some("command")
    /\ modes' = [command |-> [typed |-> CommandExit(CommandHere).typed,
                              command_state |-> CommandExit(CommandHere).command_state]]
    /\ manager' = [manager EXCEPT !.active = Some("normal")]
    /\ flags' = UpdateFlag(flags, "command_active", FALSE)
    /\ last' = [op |-> "switch_mode", args |-> [name |-> "normal"], raised |-> "none",
                result |-> None, emitted |-> CommandExit(CommandHere).emitted]
    /\ UNCHANGED <<registry, cache, buffer, visual_state>>

\* switch_mode("command") while Command mode is active returns at once.
SessionStay ==
    /\ manager.active = Some("command")
    /\ last' = [op |-> "switch_mode", args |-> [name |-> "command"], raised |-> "none",
                result |-> None, emitted |-> <<>>]
    /\ UNCHANGED <<registry, cache, modeVars>>

NextSessions ==
    \/ \E key \in SessionKeys : SessionKey(key)
    \/ SessionEnter
    \/ SessionLeave
    \/ SessionStay

SpecSessions == InitCommand /\ [][NextSessions]_vars

\* The command.start and command.end events of a call, in order.
Brackets(emitted) ==
    SelectSeq(EventNames(emitted), LAMBDA n : n \in {"command.start", "command.end"})

\* C35: command.start and command.end alternate, command.start first: a
\* call that enters Command mode emits one command.start, a call that leaves
\* it one command.end, any other call neither; right after an entry and an
\* exit _typed and the text of command_state are empty.
C35_StartAndEndAlternate ==
    /\ [][LET was == manager.active = Some("command")
              is == manager'.active = Some("command")
          IN  /\ Brackets(last'.emitted) =
                    IF ~was /\ is THEN <<"command.start">>
                    ELSE IF was /\ ~is THEN <<"command.end">>
                    ELSE <<>>
              /\ Brackets(last'.emitted) # <<>> =>
                    /\ modes'.command.typed = <<>>
                    /\ modes'.command.command_state # None
                    /\ modes'.command.command_state[1]["text"] = <<>>]_vars
    /\ [](manager.active = Some("command") <=> (FlagSet("command_active")))

\* A second visit to Command mode has begun after a line was typed and
\* submitted in the first: command.start was just emitted, nothing is typed.
C35_Witness ==
    /\ manager.active = Some("command")
    /\ last.op = "switch_mode"
    /\ Brackets(last.emitted) = <<"command.start">>
    /\ SubmittedLines(CommandHere) # <<>>
    /\ SubmittedLines(CommandHere)[1] # <<>>
    /\ modes.command.typed = <<>>

\* ------------------------------------------------------------------
\* C36: after any sequence of register_binding, unregister_binding,
\* update_binding and override_sequence_timeouts calls, successful or
\* failed, the table and the index agree: the binding stored under key k
\* has id k, a bucket (mode, key signature) holds an id exactly when the
\* table holds a binding with that id, mode and signature, and therefore
\* iter_bindings(mode) does not fail and yields exactly the bindings of
\* that mode.
C36_TableAndIndexAlwaysAgree ==
    /\ \A k \in DOMAIN registry.bindings : registry.bindings[k].id = k
    /\ \A m \in DOMAIN registry.mode_index :
          \A sg \in DOMAIN registry.mode_index[m] :
             \A id \in registry.mode_index[m][sg] :
                /\ id \in DOMAIN registry.bindings
                /\ registry.bindings[id].mode = m
                /\ KeySignature(registry.bindings[id]) = sg
    /\ \A k \in DOMAIN registry.bindings :
          registry.bindings[k].id \in
              Bucket(registry.mode_index, registry.bindings[k].mode,
                     KeySignature(registry.bindings[k]))
    /\ \A m \in DOMAIN registry.mode_index :
          ~IterBindingsRaises(registry, Some(m))

\* ------------------------------------------------------------------
\* C37: in every registry state reached through register_binding,
\* unregister_binding, update_binding and override_sequence_timeouts, no
\* two distinct registered bindings of the same mode and key signature
\* are in conflict as detect_conflicts judges it; in particular a mode
\* and key signature have at most one binding without guards.
C37_NoTwoRegisteredBindingsConflict ==
    \A k1 \in DOMAIN registry.bindings : \A k2 \in DOMAIN registry.bindings :
        LET left == registry.bindings[k1]
            right == registry.bindings[k2]
        IN  (/\ k1 # k2
             /\ left.id # right.id
             /\ left.mode = right.mode
             /\ KeySignature(left) = KeySignature(right))
            => /\ ~ContextsOverlap(left, right)
               /\ ~(left.when = <<>> /\ right.when = <<>>)

====
